---- MODULE Spec2Model ----
(***************************************************************************)
(* Verification model of the PT curve viewer's data pipeline:              *)
(*   - lttbDownsample            (components/CurvePlot, LTTB section)       *)
(*   - calculateSyncOffsets      (services/syncService) and the SyncPanel   *)
(*   - processFiles / processDroppedPaths / parse-files-parallel (import)   *)
(*   - per-instance channel visibility (settingsStore, PlotLegend,          *)
(*     CurvePlot's allChannels / filteredChannels)                          *)
(* Array indices are 0-based as in the source; a TLA+ sequence s holds the  *)
(* source's element i at s[i + 1].                                          *)
(***************************************************************************)
EXTENDS Integers, Sequences, FiniteSets, TLC

\* ---------------------------------------------------------------------------
\* Bounds of the model
\* ---------------------------------------------------------------------------
MaxLttbN == 6

MaxSyncFiles == 2

\* an import holds at most MaxImportBatches full batches plus a partial one
MaxImportBatches == 2

\* number of worker threads of the pool on the modelled machine
PoolSize == 2

\* a point string holds at most MaxPoints + 1 pieces, declared for up to
\* MaxPoints + 1 points
MaxPoints == 2

\* the histogram is computed of at most MaxHistN values in at most MaxBins bins
MaxHistN == 3

MaxBins == 3

\* files shown in the value tables
MaxValueFiles == 2

\* setValue and actualValue elements of all files together
MaxValueRows == 3


\* the zoom history holds at most MaxZoomLevels levels
MaxZoomLevels == 3
MaxCvLen == 3
MaxStoreFiles == 4


\* Coordinate values the point series are drawn from.
Coords == {0, 2}

\* ---------------------------------------------------------------------------
\* Generic helpers
\* ---------------------------------------------------------------------------
Abs(a) == IF a < 0 THEN -a ELSE a

Min2(a, b) == IF a < b THEN a ELSE b

\* Math.floor(a / b) for b > 0 (a may be negative)
FloorDiv(a, b) == IF a >= 0 THEN a \div b ELSE -((-a + b - 1) \div b)

SeqsUpTo(S, n) == UNION {[1..k -> S] : k \in 0..n}

\* Array.from({ length: n }, (_, i) => i)
Iota(n) == [k \in 1..n |-> k - 1]

VARIABLES
  lttbX, lttbY, lttbThreshold,   \* arguments of the lttbDownsample call
  lttbOut,                       \* its return value
  lttbPc                         \* "call" before the call, "done" after it

lttbVars == <<lttbX, lttbY, lttbThreshold, lttbOut, lttbPc>>

VARIABLES
  ptNoOfPoints,  \* parsePoints: num(curve.noOfPoints, 0), counted in halves
  ptPoints,      \*   curve.points
  ptParser,      \* "renderer" (xmlParser.ts) | "worker" (parse-worker)
  ptChannel,     \* the CurveChannel made from the curve
  ptPc           \* "call" | "sent" (worker result on its way) | "held" | "threw"

ptVars == <<ptNoOfPoints, ptPoints, ptParser, ptChannel, ptPc>>

VARIABLES
  histValues,    \* computeHistogramBins: values
  histBinCount,  \*   binCount
  histOut,       \* its return value, or the exception it ended with
  histPc         \* "call" before the call, "done" after it

histVars == <<histValues, histBinCount, histOut, histPc>>

VARIABLES
  valFiles,     \* the files of the value tables: id, setValues, actualValues
  valType,      \* ValueDetailModal: the `type` prop, 'set' | 'actual'
  valRow,       \*   the `rowNumber` prop
  valDescs,     \* ValueTables: collectDescriptions('set') and ('actual')
  valPoints,    \* ValueDetailModal: dataPoints
  valAllDescs,  \*   allValueDescs
  valPc         \* "xml" | "parsed" | "tables" | "detail"

valVars == <<valFiles, valType, valRow, valDescs, valPoints, valAllDescs, valPc>>


VARIABLES
  zoomHistory,    \* plotSettings.zoomHistory
  zoomIndex,      \* plotSettings.zoomIndex (0-based, -1 while empty)
  chartZoom,      \* the chart's dataZoom[0]: the level it shows
  zoomTimerRef,   \* CurvePlot: the debounce timer of handleDataZoom is pending
  undoBase,       \* history: the recorded levels when a run of undos began
  undoCount       \* history: the undos of the run so far

zoomVars == <<zoomHistory, zoomIndex, chartZoom, zoomTimerRef, undoBase, undoCount>>


VARIABLES
  calcFiles,       \* calculateSyncOffsets: the `files` argument
  calcMode,        \*   mode
  calcMaster,      \*   masterYAxis
  calcActiveX,     \*   activeXAxis
  calcThreshold,   \*   threshold
  calcI,           \*   loop variable i
  calcOffsets,     \*   local `offsets` (fileId -> offset)
  calcErrors,      \*   local `errors`
  calcPc,          \* "idle" | "loop" (suspended between two files) | "returned"
  calcProgress     \* the (current, total) of the onProgress calls made so far

calcVars == <<calcFiles, calcMode, calcMaster, calcActiveX, calcThreshold,
              calcI, calcOffsets, calcErrors, calcPc, calcProgress>>

VARIABLES
  files,              \* fileStore.files
  syncMode,           \* settingsStore: syncMode
  syncMasterYAxis,    \*   syncMasterYAxis
  syncThreshold,      \*   syncThreshold
  syncOffsets,        \*   syncOffsets (fileId -> X-offset)
  syncErrors,         \*   syncErrors
  syncIsCalculating   \*   syncIsCalculating

syncStoreVars == <<syncMode, syncMasterYAxis, syncThreshold, syncOffsets,
                   syncErrors, syncIsCalculating>>

VARIABLES
  env,          \* "browser" | "electron" | "electron-nopool" (preload without the pool API)
  imp,          \* the import handlers' invocations: locals and position of each
  abortRef,     \* FileImport: abortRef.current (an invocation, 0 for null)
  isLoading,    \* fileStore.isLoading
  globalAbortRef,  \* App: globalAbortRef.current (an invocation, 0 for null)
  loadingTimers,   \* pending setTimeout callbacks that call setLoading(false, '')
  dispatched,   \* history: sub-batches handed to parsing so far, per invocation
  ipcToMain,    \* renderer -> main: invoke('parse-files-parallel') in flight
  ipcToRenderer \* main -> renderer: 'parse-batch' events and invoke replies

rendererVars == <<env, imp, abortRef, isLoading, globalAbortRef, loadingTimers, dispatched,
                  ipcToMain, ipcToRenderer>>

VARIABLES
  calls,             \* main: the running 'parse-files-parallel' handlers
  workerBusy,        \* main: workerBusy
  pendingRequests,   \* main: pendingRequests
  requestIdCounter,  \* main: requestIdCounter
  activeResolvers,   \* main: activeResolvers
  workerInbox,       \* per worker: posted 'parse-files' messages not yet handled
  workerOutbox,      \* per worker: posted 'parse-result' messages not yet handled
  submitCounter,     \* history: the number of parseFilesInWorker calls so far
  workerExited       \* the workers that ended with an uncaught exception

poolVars == <<calls, workerBusy, pendingRequests, requestIdCounter, activeResolvers,
              workerInbox, workerOutbox, submitCounter, workerExited>>

importVars == <<rendererVars, poolVars>>

VARIABLES
  groups,             \* groupStore.groups
  treeSelection,      \* settingsStore.treeSelection
  storeActiveXAxis,        \* settingsStore.plotSettings.storeActiveXAxis
  channelVisibility,  \* settingsStore.plotSettings.channelVisibility
  hiddenInstances     \* history: instances set hidden and not set visible since

visVars == <<groups, treeSelection, storeActiveXAxis, channelVisibility, hiddenInstances>>

\* ===========================================================================
\* LTTB downsampling
\* ===========================================================================

\* Math.floor(k * bucketSize) with bucketSize = (dataLength - 2) / (threshold - 2).
\* The quotient is taken exactly; the double-precision product of the source
\* has the same floor for every dataLength < 17, which covers MaxLttbN.
BucketFloor(k, dataLength, threshold) ==
  FloorDiv(k * (dataLength - 2), threshold - 2)

RECURSIVE SumRange(_, _, _)
\* sum of arr[j] for j = from .. to-1 (0-based)
SumRange(arr, from, to) ==
  IF from >= to THEN 0 ELSE arr[from + 1] + SumRange(arr, from + 1, to)

\* The triangle area of the inner loop, multiplied by nextBucketLen (or by 1
\* when the next bucket is empty and avgX = avgY = 0).  Within one bucket the
\* factor is the same positive number for every candidate, so the `area >
\* maxArea` comparisons come out as in the source.
ScaledArea(x, y, j, prevIndex, sumX, sumY, len) ==
  LET prevX == x[prevIndex + 1]
      prevY == y[prevIndex + 1]
  IN  Abs((prevX * len - sumX) * (y[j + 1] - prevY)
          - (prevX - x[j + 1]) * (sumY - prevY * len))

RECURSIVE BestInBucket(_, _, _, _, _, _, _, _, _, _)
\* for (let j = rangeStart; j < rangeEnd; j++) if (area > maxArea) {...}
BestInBucket(x, y, j, rangeEnd, prevIndex, sumX, sumY, len, maxArea, bestIndex) ==
  IF j >= rangeEnd THEN bestIndex
  ELSE LET area == ScaledArea(x, y, j, prevIndex, sumX, sumY, len)
       IN  IF area > maxArea
             THEN BestInBucket(x, y, j + 1, rangeEnd, prevIndex, sumX, sumY, len, area, j)
             ELSE BestInBucket(x, y, j + 1, rangeEnd, prevIndex, sumX, sumY, len, maxArea, bestIndex)

\* One iteration of the bucket loop: the index pushed for bucket i.
BucketPick(x, y, threshold, i, prevIndex) ==
  LET dataLength      == Len(x)
      rangeStart      == BucketFloor(i + 1, dataLength, threshold) + 1
      rangeEnd        == Min2(BucketFloor(i + 2, dataLength, threshold) + 1, dataLength)
      nextBucketStart == BucketFloor(i + 2, dataLength, threshold) + 1
      nextBucketEnd   == Min2(BucketFloor(i + 3, dataLength, threshold) + 1, dataLength)
      nextBucketLen   == Min2(nextBucketEnd, dataLength) - nextBucketStart
      len             == IF nextBucketLen > 0 THEN nextBucketLen ELSE 1
      sumX            == IF nextBucketLen > 0
                           THEN SumRange(x, nextBucketStart, Min2(nextBucketEnd, dataLength))
                           ELSE 0
      sumY            == IF nextBucketLen > 0
                           THEN SumRange(y, nextBucketStart, Min2(nextBucketEnd, dataLength))
                           ELSE 0
  IN  BestInBucket(x, y, rangeStart, rangeEnd, prevIndex, sumX, sumY, len, -1, rangeStart)

RECURSIVE LttbLoop(_, _, _, _, _, _, _)
\* for (let i = 0; i < count; i++) { ...; sampled.push(bestIndex); prevIndex = bestIndex }
LttbLoop(x, y, threshold, count, i, prevIndex, sampled) ==
  IF i >= count THEN sampled
  ELSE LET bestIndex == BucketPick(x, y, threshold, i, prevIndex)
       IN  LttbLoop(x, y, threshold, count, i + 1, bestIndex, Append(sampled, bestIndex))

\* Mutant: the bucket loop runs once more than threshold - 2 times.
lttbDownsample_extraBucket(x, y, threshold) ==
  LET dataLength == Len(x)
  IN  IF threshold >= dataLength \/ threshold <= 2
        THEN Iota(dataLength)
        ELSE Append(LttbLoop(x, y, threshold, threshold - 1, 0, 0, <<0>>), dataLength - 1)

lttbDownsample(x, y, threshold) ==
  LET dataLength == Len(x)
  IN  IF threshold >= dataLength \/ threshold <= 2
        THEN Iota(dataLength)
        ELSE Append(LttbLoop(x, y, threshold, threshold - 2, 0, 0, <<0>>), dataLength - 1)

\* ===========================================================================
\* Sync engine (syncService.calculateSyncOffsets)
\* ===========================================================================

\* Numbers that the threshold interpolation can produce are fractions; a
\* number is a record [n, d] in lowest terms with d > 0.  Null is a value of
\* its own.
RECURSIVE Gcd(_, _)
Gcd(a, b) == IF b = 0 THEN a ELSE Gcd(b, a % b)

Rat(n, d) ==
  LET sn == IF d < 0 THEN -n ELSE n
      sd == Abs(d)
      g  == Gcd(Abs(sn), sd)
  IN  [n |-> sn \div g, d |-> sd \div g]

RatInt(k) == [n |-> k, d |-> 1]

RatNeg(r) == [n |-> -r.n, d |-> r.d]

\* null, as a "number" no computation produces (d = 0)
Null == [n |-> 0, d |-> 0]

\* Channels of the sample files: xName, yName, description, pointsX, pointsY.
ChForce  == [xName |-> "s", yName |-> "F", description |-> "force",
             pointsX |-> <<3, 5, 8>>, pointsY |-> <<0, 10, 20>>]
ChTime   == [xName |-> "t", yName |-> "F", description |-> "force",
             pointsX |-> <<1, 2>>, pointsY |-> <<0, 10>>]
ChAlias  == [xName |-> "s", yName |-> "P", description |-> "F",
             pointsX |-> <<4, 1>>, pointsY |-> <<20, 12>>]
ChEmpty  == [xName |-> "s", yName |-> "F", description |-> "",
             pointsX |-> <<>>, pointsY |-> <<>>]
ChPress  == [xName |-> "s", yName |-> "P", description |-> "pos",
             pointsX |-> <<2, 6>>, pointsY |-> <<10, 0>>]

\* The curve lists a sample file can have.
SyncCurveLists ==
  { <<ChForce>>, <<ChTime>>, <<ChEmpty, ChForce>>, <<ChAlias>>,
    <<ChTime, ChPress>>, <<>> }

\* file.header.idString || file.filename
SyncFileNames == {"run-A", "run-B"}

SyncModes == {"xmin", "xmax", "ythreshold"}

SyncThresholds == {5, 10}

SyncMasters == {"F", "P"}

\* Batches of at most maxLen files with pairwise different ids (addFiles keeps
\* the ids of the store unique).
BatchesOf(names, curveLists, maxLen) ==
  UNION { { [k \in 1..n |-> [id |-> k, name |-> nm[k], curves |-> cl[k]]] :
              nm \in [1..n -> names], cl \in [1..n -> curveLists] }
          : n \in 0..maxLen }

SyncBatches(maxLen) == BatchesOf(SyncFileNames, SyncCurveLists, maxLen)

RECURSIVE FirstMatch(_, _, _, _)
\* index (1-based) of the first channel of `curves`, from position k on, with
\* ch.xName === activeXAxis && (ch.yName === masterYAxis ||
\* ch.description === masterYAxis); 0 if there is none
FirstMatch(curves, k, masterYAxis, activeXAxis) ==
  IF k > Len(curves) THEN 0
  ELSE IF /\ curves[k].xName = activeXAxis
          /\ (curves[k].yName = masterYAxis \/ curves[k].description = masterYAxis)
         THEN k
         ELSE FirstMatch(curves, k + 1, masterYAxis, activeXAxis)

\* returns [isNull, pointsX]: null, or the first matching channel's pointsX
findMasterPoints(file, masterYAxis, activeXAxis) ==
  LET k == FirstMatch(file.curves, 1, masterYAxis, activeXAxis)
  IN  IF k = 0 THEN [isNull |-> TRUE, pointsX |-> <<>>]
      ELSE [isNull |-> FALSE, pointsX |-> file.curves[k].pointsX]

RECURSIVE CrossingLoop(_, _, _, _)
\* for (let i = 1; i < len; i++) { ... } return null
CrossingLoop(pointsX, pointsY, threshold, i) ==
  IF i >= Len(pointsX) THEN Null
  ELSE LET y0 == pointsY[i]
           y1 == pointsY[i + 1]
       IN  IF y1 = threshold THEN RatInt(pointsX[i + 1])
           ELSE IF (y0 < threshold /\ y1 > threshold) \/ (y0 > threshold /\ y1 < threshold)
                  \* pointsX[i-1] + ((threshold - y0) / (y1 - y0)) * (pointsX[i] - pointsX[i-1])
                  THEN Rat(pointsX[i] * (y1 - y0) + (threshold - y0) * (pointsX[i + 1] - pointsX[i]),
                           y1 - y0)
                  ELSE CrossingLoop(pointsX, pointsY, threshold, i + 1)

findFirstThresholdCrossing(pointsX, pointsY, threshold) ==
  IF Len(pointsX) = 0 THEN Null
  ELSE IF pointsY[1] = threshold THEN RatInt(pointsX[1])
  ELSE CrossingLoop(pointsX, pointsY, threshold, 1)

RECURSIVE MinLoop(_, _, _, _)
\* let min = Infinity; for (j ...) if (masterX[j] < min) min = masterX[j]
MinLoop(masterX, j, isInf, min) ==
  IF j >= Len(masterX) THEN min
  ELSE IF isInf \/ masterX[j + 1] < min
         THEN MinLoop(masterX, j + 1, FALSE, masterX[j + 1])
         ELSE MinLoop(masterX, j + 1, isInf, min)

RECURSIVE MaxLoop(_, _, _, _)
\* let max = -Infinity; for (j ...) if (masterX[j] > max) max = masterX[j]
MaxLoop(masterX, j, isInf, max) ==
  IF j >= Len(masterX) THEN max
  ELSE IF isInf \/ masterX[j + 1] > max
         THEN MaxLoop(masterX, j + 1, FALSE, masterX[j + 1])
         ELSE MaxLoop(masterX, j + 1, isInf, max)

\* Error strings, by their file name part and their message part.
SyncError(file, kind) == [file |-> file.name, kind |-> kind]

\* The body of the for loop for one file: the offset stored in
\* offsets[file.id] and the error strings pushed, as [offset, errors].
SyncLoopBody(file, mode, masterYAxis, activeXAxis, threshold) ==
  LET master  == findMasterPoints(file, masterYAxis, activeXAxis)
      masterX == master.pointsX
  IN  IF master.isNull \/ Len(masterX) = 0
        THEN [offset |-> RatInt(0), errors |-> <<SyncError(file, "No master channel found")>>]
      ELSE IF mode = "xmin"
        THEN [offset |-> RatInt(-MinLoop(masterX, 0, TRUE, 0)), errors |-> <<>>]
      ELSE IF mode = "xmax"
        THEN [offset |-> RatInt(-MaxLoop(masterX, 0, TRUE, 0)), errors |-> <<>>]
      ELSE IF mode = "ythreshold"
        THEN LET k == FirstMatch(file.curves, 1, masterYAxis, activeXAxis)
             IN  IF k = 0
                   THEN [offset |-> RatInt(0), errors |-> <<SyncError(file, "Master channel not found")>>]
                   ELSE LET crossingX == findFirstThresholdCrossing(
                                           file.curves[k].pointsX, file.curves[k].pointsY, threshold)
                        IN  IF crossingX = Null
                              THEN [offset |-> RatInt(0),
                                    errors |-> <<SyncError(file, "Y-threshold not crossed")>>]
                              ELSE [offset |-> RatNeg(crossingX), errors |-> <<>>]
      ELSE [offset |-> RatInt(0), errors |-> <<>>]

\* offsets[id] = v on a Record<string, number>
SetKey(rec, id, v) == [k \in (DOMAIN rec) \cup {id} |-> IF k = id THEN v ELSE rec[k]]

EmptyRecord == [k \in {} |-> RatInt(0)]

\* Mutant: a file without an offset ends the loop (the batch is aborted).
CalcIteration_abortOnError(fileList, mode, masterYAxis, activeXAxis, threshold, i, offsets, errors) ==
  LET body == SyncLoopBody(fileList[i + 1], mode, masterYAxis, activeXAxis, threshold)
  IN  [i       |-> IF body.errors = <<>> THEN i + 1 ELSE Len(fileList),
       offsets |-> SetKey(offsets, fileList[i + 1].id, body.offset),
       errors  |-> errors \o body.errors]

\* Iteration i of `for (let i = 0; i < total; i++)`, up to its await: the
\* loop variable, `offsets` and `errors` when the function resumes.
CalcIteration(fileList, mode, masterYAxis, activeXAxis, threshold, i, offsets, errors) ==
  LET body == SyncLoopBody(fileList[i + 1], mode, masterYAxis, activeXAxis, threshold)
  IN  [i       |-> i + 1,
       offsets |-> SetKey(offsets, fileList[i + 1].id, body.offset),
       errors  |-> errors \o body.errors]

\* onProgress?.(i + 1, total, ...): the files counted from one
onProgress_oneBased(current, total) ==
  [current |-> IF current < total THEN current + 1 ELSE current, total |-> total]

\* onProgress?.(current, total, message), without the message
onProgress(current, total) == [current |-> current, total |-> total]

\* calculateSyncOffsets(fileList, mode, masterYAxis, activeXAxis, threshold) up
\* to its first await: iteration 0, or the return when the batch is empty.
CalcEnter(fileList, mode, masterYAxis, activeXAxis, threshold) ==
  /\ calcFiles' = fileList
  /\ calcMode' = mode
  /\ calcMaster' = masterYAxis
  /\ calcActiveX' = activeXAxis
  /\ calcThreshold' = threshold
  /\ IF Len(fileList) = 0
       THEN /\ calcI' = 0
            /\ calcOffsets' = EmptyRecord
            /\ calcErrors' = <<>>
            /\ calcPc' = "returned"
            /\ calcProgress' = <<onProgress(0, 0)>>
       ELSE LET it == CalcIteration(fileList, mode, masterYAxis, activeXAxis, threshold,
                                    0, EmptyRecord, <<>>)
            IN  /\ calcI' = it.i
                /\ calcOffsets' = it.offsets
                /\ calcErrors' = it.errors
                /\ calcPc' = "loop"
                /\ calcProgress' = <<onProgress(0, Len(fileList))>>

\* The function resumes after `await new Promise((r) => setTimeout(r, 0))`
\* and runs the next iteration up to its await.
CalcNextFile ==
  /\ calcPc = "loop"
  /\ calcI < Len(calcFiles)
  /\ LET it == CalcIteration(calcFiles, calcMode, calcMaster, calcActiveX, calcThreshold,
                             calcI, calcOffsets, calcErrors)
     IN  /\ calcI' = it.i
         /\ calcOffsets' = it.offsets
         /\ calcErrors' = it.errors
  /\ calcProgress' = Append(calcProgress, onProgress(calcI, Len(calcFiles)))
  /\ UNCHANGED <<calcFiles, calcMode, calcMaster, calcActiveX, calcThreshold, calcPc>>

\* The function resumes after the last file's await, leaves the loop and
\* returns { offsets, errors }.
CalcReturn ==
  /\ calcPc = "loop"
  /\ calcI >= Len(calcFiles)
  /\ calcPc' = "returned"
  /\ calcProgress' = Append(calcProgress, onProgress(Len(calcFiles), Len(calcFiles)))
  /\ UNCHANGED <<calcFiles, calcMode, calcMaster, calcActiveX, calcThreshold,
                 calcI, calcOffsets, calcErrors>>

CalcIdle ==
  /\ calcFiles = <<>>
  /\ calcMode = "xmin"
  /\ calcMaster = ""
  /\ calcActiveX = ""
  /\ calcThreshold = 0
  /\ calcI = 0
  /\ calcOffsets = EmptyRecord
  /\ calcErrors = <<>>
  /\ calcPc = "idle"
  /\ calcProgress = <<>>

\* ---- calculateSyncOffsets on its own: any batch, mode, master, threshold ----
SyncCalcInit ==
  /\ calcFiles \in SyncBatches(MaxSyncFiles)
  /\ calcMode \in SyncModes
  /\ calcMaster \in SyncMasters
  /\ calcActiveX = "s"
  /\ calcThreshold \in SyncThresholds
  /\ calcI = 0
  /\ calcOffsets = EmptyRecord
  /\ calcErrors = <<>>
  /\ calcPc = "call"
  /\ calcProgress = <<>>

SyncCalcCall ==
  /\ calcPc = "call"
  /\ CalcEnter(calcFiles, calcMode, calcMaster, calcActiveX, calcThreshold)

\* ===========================================================================
\* SyncPanel (handlers of the X-Sync toolbar section) and the sync part of
\* the settings store
\* ===========================================================================

\* the activeXAxis prop of the panel
PanelActiveXAxis == "s"

RECURSIVE Dedupe(_, _)
\* the iteration order of a Set filled with the elements of seq in order
Dedupe(seq, acc) ==
  IF seq = <<>> THEN acc
  ELSE IF \E k \in 1..Len(acc) : acc[k] = seq[1]
         THEN Dedupe(Tail(seq), acc)
         ELSE Dedupe(Tail(seq), Append(acc, seq[1]))

\* ch.yName || ch.description
YLabel(ch) == IF ch.yName /= "" THEN ch.yName ELSE ch.description

RECURSIVE FileYLabels(_, _, _)
\* the labels set.add()-ed for one file, in order
FileYLabels(curves, k, activeXAxis) ==
  IF k > Len(curves) THEN <<>>
  ELSE (IF curves[k].xName = activeXAxis THEN <<YLabel(curves[k])>> ELSE <<>>)
       \o FileYLabels(curves, k + 1, activeXAxis)

RECURSIVE AllYLabels(_, _, _)
AllYLabels(fs, k, activeXAxis) ==
  IF k > Len(fs) THEN <<>>
  ELSE FileYLabels(fs[k].curves, 1, activeXAxis) \o AllYLabels(fs, k + 1, activeXAxis)

getAllYAxes(fs, activeXAxis) == Dedupe(AllYLabels(fs, 1, activeXAxis), <<>>)

getCommonYAxes(fs, activeXAxis) ==
  IF Len(fs) = 0 THEN <<>>
  ELSE LET first == Dedupe(FileYLabels(fs[1].curves, 1, activeXAxis), <<>>)
           InAll(yName) ==
             \A f \in 1..Len(fs) :
               \E c \in 1..Len(fs[f].curves) :
                 /\ fs[f].curves[c].xName = activeXAxis
                 /\ YLabel(fs[f].curves[c]) = yName
       IN  SelectSeq(first, InAll)

availableYAxes ==
  IF syncMode = "ythreshold"
    THEN getCommonYAxes(files, PanelActiveXAxis)
    ELSE getAllYAxes(files, PanelActiveXAxis)

effectiveMaster ==
  IF syncMasterYAxis /= "" /\ (\E k \in 1..Len(availableYAxes) : availableYAxes[k] = syncMasterYAxis)
    THEN syncMasterYAxis
    ELSE IF Len(availableYAxes) > 0 THEN availableYAxes[1] ELSE ""

\* settingsStore.resetSync
\* a reset that turns the mode off and keeps the offsets
resetSync_keepOffsets ==
  /\ syncMode' = "off"
  /\ syncOffsets' = syncOffsets
  /\ syncErrors' = <<>>
  /\ syncIsCalculating' = FALSE


resetSync ==
  /\ syncMode' = "off"
  /\ syncOffsets' = EmptyRecord
  /\ syncErrors' = <<>>
  /\ syncIsCalculating' = FALSE

\* settingsStore.applySyncOffsets(offsets, errors)
applySyncOffsets(offsets, errors) ==
  /\ syncOffsets' = offsets
  /\ syncErrors' = errors
  /\ syncIsCalculating' = FALSE

\* CurvePlot chartOption: `syncOffsets[file.id] || 0`
fileOffset(offsets, file) ==
  IF file.id \in DOMAIN offsets /\ offsets[file.id].n /= 0
    THEN offsets[file.id] ELSE RatInt(0)

\* CurvePlot chartOption: the X values of a series,
\* data[i] = [channel.pointsX[i] + fileOffset, ...]
seriesX(offsets, file, channel) ==
  LET off == fileOffset(offsets, file)
  IN  [i \in 1..Len(channel.pointsX) |-> Rat(channel.pointsX[i] * off.d + off.n, off.d)]


\* The panel is rendered only while files are loaded.
PanelShown == Len(files) > 0

\* the mode <select>
handleModeChange(mode) ==
  /\ PanelShown
  /\ IF mode = "off"
       THEN resetSync /\ UNCHANGED <<syncMasterYAxis, syncThreshold>>
       ELSE /\ syncMode' = mode
            /\ UNCHANGED <<syncMasterYAxis, syncThreshold, syncOffsets, syncErrors,
                           syncIsCalculating>>
  /\ UNCHANGED <<files, calcVars>>

\* the master <select>, offered while the mode is not off
handleMasterChange(yAxis) ==
  /\ PanelShown
  /\ syncMode /= "off"
  /\ \E k \in 1..Len(availableYAxes) : availableYAxes[k] = yAxis
  /\ syncMasterYAxis' = yAxis
  /\ UNCHANGED <<syncMode, syncThreshold, syncOffsets, syncErrors, syncIsCalculating>>
  /\ UNCHANGED <<files, calcVars>>

\* the threshold <input>, offered in ythreshold mode
handleThresholdChange(val) ==
  /\ PanelShown
  /\ syncMode = "ythreshold"
  /\ syncThreshold' = val
  /\ UNCHANGED <<syncMode, syncMasterYAxis, syncOffsets, syncErrors, syncIsCalculating>>
  /\ UNCHANGED <<files, calcVars>>

\* the Apply button (disabled while syncIsCalculating or without axes) up to
\* the first await of calculateSyncOffsets; with an empty batch the function
\* returns at once and the handler's continuation runs in the same task.
\* One calculation is modelled at a time: the button is not pressed again
\* while an earlier call has not returned.
handleApply ==
  /\ PanelShown
  /\ syncMode /= "off"
  /\ ~syncIsCalculating
  /\ Len(availableYAxes) > 0
  /\ effectiveMaster /= ""
  /\ calcPc = "idle"
  /\ CalcEnter(files, syncMode, effectiveMaster, PanelActiveXAxis, syncThreshold)
  /\ syncIsCalculating' = TRUE
  /\ UNCHANGED <<files, syncMode, syncMasterYAxis, syncThreshold, syncOffsets, syncErrors>>

\* a timer task of the running calculation: the next file
PanelCalcNextFile ==
  /\ CalcNextFile
  /\ UNCHANGED <<files, syncStoreVars>>

\* the last timer task: calculateSyncOffsets returns and handleApply goes on
\* after its await with applySyncOffsets and setSyncMasterYAxis
handleApplyContinue ==
  /\ calcPc = "loop"
  /\ calcI >= Len(calcFiles)
  /\ applySyncOffsets(calcOffsets, calcErrors)
  /\ syncMasterYAxis' = calcMaster
  /\ calcPc' = "idle"
  /\ calcProgress' = Append(calcProgress, onProgress(Len(calcFiles), Len(calcFiles)))
  /\ UNCHANGED <<syncMode, syncThreshold, files>>
  /\ UNCHANGED <<calcFiles, calcMode, calcMaster, calcActiveX, calcThreshold,
                 calcI, calcOffsets, calcErrors>>

\* the Reset button, shown while the mode is not off and offsets exist
handleReset ==
  /\ PanelShown
  /\ syncMode /= "off"
  /\ DOMAIN syncOffsets /= {}
  /\ resetSync
  /\ UNCHANGED <<syncMasterYAxis, syncThreshold, files, calcVars>>

SyncStoreInit ==
  /\ syncMode = "off"
  /\ syncMasterYAxis = ""
  /\ syncThreshold = 0
  /\ syncOffsets = EmptyRecord
  /\ syncErrors = <<>>
  /\ syncIsCalculating = FALSE

PanelCurveLists == { <<ChForce>>, <<ChAlias>>, <<ChTime, ChPress>> }

SyncPanelInit ==
  /\ SyncStoreInit
  /\ CalcIdle
  /\ files \in BatchesOf({"run-A"}, PanelCurveLists, MaxSyncFiles)

\* ===========================================================================
\* File import: fileStore, fileImporter, FileImport handlers
\* ===========================================================================
BATCH_SIZE == 50

ImportIds == {1}

\* Why a file of an import cannot be parsed.
FailureKinds == {"unreadable", "decompress", "no-xml", "malformed"}

ImportSizes == { q * BATCH_SIZE + r : q \in 0..MaxImportBatches, r \in {0, 1} }

\* The files that may be broken are the first and the last of the import:
\* none, one of them in any way, or both in two different ways.
FailPatterns(n) ==
  {{}} \cup { {<<k, kind>>} : k \in {1, n} \cap (1..n), kind \in FailureKinds }
       \cup (IF n > 1 THEN { {<<1, "unreadable">>, <<n, "malformed">>},
                             {<<1, "decompress">>, <<n, "no-xml">>} }
                      ELSE {})

KindOf(fail, k) ==
  IF \E a \in fail : a[1] = k THEN (CHOOSE a \in fail : a[1] = k)[2] ELSE "ok"

\* crypto.randomUUID() of parseXmlString: a fresh id per parsed file
IdStride == 1000

FileId(s, k) == s * IdStride + k

NoFile == 0

ImportedFile(id) == [id |-> id, name |-> "import", curves |-> <<>>]

Ceil(a, b) == (a + b - 1) \div b

\* fileStore.addFiles(newFiles)
addFiles(newFiles) ==
  LET existingIds == {files[k].id : k \in 1..Len(files)}
      isNew(f) == f.id \notin existingIds
  IN  files' = files \o SelectSeq(newFiles, isNew)

\* the onBatch callback of the importers: called with a non-empty batch only
onBatch(ids) ==
  IF Len(ids) > 0
    THEN addFiles([k \in 1..Len(ids) |-> ImportedFile(ids[k])])
    ELSE UNCHANGED files

IsFile(r) == r /= NoFile

\* processFile(file): every failure is caught and gives null
processFile(s, fail, k) ==
  IF KindOf(fail, k) = "ok" THEN FileId(s, k) ELSE NoFile

\* batch.map(processFile) of processFiles for files from..from+len-1
BrowserBatch(s, fail, from, len) == [k \in 1..len |-> processFile(s, fail, from + k - 1)]

\* main 'read-files-batch': null for a file that cannot be read, its data else
readFilesBatch(fail, from, len) ==
  [k \in 1..len |-> IF KindOf(fail, from + k - 1) = "unreadable"
                      THEN "null" ELSE KindOf(fail, from + k - 1)]

\* the fallback's loop over batchData: null entries are skipped, a throwing
\* extractXmlFromZpg / parseXmlString is caught per file
FallbackBatch(s, batchData, from) ==
  LET parsed(k) == IF batchData[k] = "ok" THEN FileId(s, from + k - 1) ELSE NoFile
  IN  SelectSeq([k \in 1..Len(batchData) |-> parsed(k)], IsFile)

\* the worker's 'parse-files' handler with the try/catch around the whole
\* loop instead of around one file
WorkerParseFiles_catchOutsideLoop(s, fail, from, len) ==
  [k \in 1..len |-> IF \A j \in 1..k : KindOf(fail, from + j - 1) = "ok"
                      THEN FileId(s, from + k - 1) ELSE NoFile]

\* a worker handler that leaves failed files out of its results
WorkerParseFiles_dropFailed(s, fail, from, len) ==
  SelectSeq([k \in 1..len |-> IF KindOf(fail, from + k - 1) = "ok"
                                THEN FileId(s, from + k - 1) ELSE NoFile], IsFile)


\* the worker's 'parse-files' handler: one result per path, null on failure
WorkerParseFiles(s, fail, from, len) ==
  [k \in 1..len |-> IF KindOf(fail, from + k - 1) = "ok"
                      THEN FileId(s, from + k - 1) ELSE NoFile]

\* ---- the worker pool of the main process ---------------------------------
PoolState ==
  [busy |-> workerBusy, inbox |-> workerInbox, pending |-> pendingRequests,
   counter |-> requestIdCounter, resolvers |-> activeResolvers,
   submitted |-> submitCounter]

\* workerBusy.indexOf(false), 0 for -1
FreeIdx(busy) ==
  IF \E w \in 1..PoolSize : ~busy[w]
    THEN CHOOSE w \in 1..PoolSize : ~busy[w] /\ \A v \in 1..(w - 1) : busy[v]
    ELSE 0

\* hands req to worker w under a fresh request id
PostToWorker(p, w, req) ==
  [p EXCEPT !.busy[w] = TRUE,
            !.counter = @ + 1,
            !.resolvers = @ \cup {[rid |-> p.counter, call |-> req.call, chunk |-> req.chunk,
                                   seq |-> req.seq]},
            !.inbox[w] = Append(@, [requestId |-> p.counter, call |-> req.call,
                                    from |-> req.from, len |-> req.len])]

\* the request as parseFilesInWorker receives it, numbered by its arrival
Submit(p, req) ==
  [call |-> req.call, chunk |-> req.chunk, from |-> req.from, len |-> req.len,
   seq |-> p.submitted]

\* a parseFilesInWorker that posts to the first worker when none is free
parseFilesInWorker_alwaysPost(p, req) ==
  LET q == [p EXCEPT !.submitted = @ + 1]
  IN  PostToWorker(q, IF FreeIdx(p.busy) /= 0 THEN FreeIdx(p.busy) ELSE 1, Submit(p, req))

\* parseFilesInWorker(filePaths); req names the paths and the awaiting chunk
parseFilesInWorker(p, req) ==
  LET q == [p EXCEPT !.submitted = @ + 1]
  IN  IF FreeIdx(p.busy) /= 0
        THEN PostToWorker(q, FreeIdx(p.busy), Submit(p, req))
        ELSE [q EXCEPT !.pending = Append(@, Submit(p, req))]

RECURSIVE processQueue_lastFirst(_)
\* a processQueue that takes the request queued last
processQueue_lastFirst(p) ==
  IF Len(p.pending) = 0 \/ FreeIdx(p.busy) = 0 THEN p
  ELSE processQueue_lastFirst(
         PostToWorker([p EXCEPT !.pending = SubSeq(@, 1, Len(@) - 1)], FreeIdx(p.busy),
                      p.pending[Len(p.pending)]))

RECURSIVE processQueue(_)
processQueue(p) ==
  IF Len(p.pending) = 0 \/ FreeIdx(p.busy) = 0 THEN p
  ELSE processQueue(PostToWorker([p EXCEPT !.pending = Tail(@)], FreeIdx(p.busy),
                                 Head(p.pending)))

\* chunk c (1-based) of a call with `total` paths
ChunkFrom(call, c) == (c - 1) * call.chunkSize + 1

ChunkLen(call, c) == Min2(call.chunkSize, call.total - (c - 1) * call.chunkSize)

SUB_BATCH == 50

\* the sub-batch of chunk c that starts at offset j of the chunk
SubBatch(s, call, c, j) ==
  [call |-> s, chunk |-> c, from |-> ChunkFrom(call, c) + j,
   len |-> Min2(SUB_BATCH, ChunkLen(call, c) - j)]

RECURSIVE StartChunks(_, _, _, _)
\* chunks.map(async chunk => ...) up to each chunk's first await
StartChunks(p, s, call, c) ==
  IF c > Len(call.chunkJ) THEN p
  ELSE StartChunks(parseFilesInWorker(p, SubBatch(s, call, c, 0)), s, call, c + 1)

NoCall == [pc |-> "none", total |-> 0, chunkSize |-> 0, chunkJ |-> <<>>, completed |-> 0,
           allResults |-> 0]

PoolAssign(p) ==
  /\ workerBusy' = p.busy
  /\ workerInbox' = p.inbox
  /\ pendingRequests' = p.pending
  /\ requestIdCounter' = p.counter
  /\ activeResolvers' = p.resolvers
  /\ submitCounter' = p.submitted

\* ---- renderer: the import handlers ---------------------------------------
ReadyImport ==
  [pc |-> "ready", entry |-> "none", path |-> "none", n |-> 0, fail |-> {}, i |-> 0,
   results |-> <<>>, aborted |-> FALSE, listening |-> FALSE]

\* setTimeout(() => setLoading(false, ''), 2500) and the drop zone's
\* setTimeout(() => { if (abortRef.current === null) setLoading(false, '') }, 5000)
NoTimers == [clear |-> 0, safety |-> 0]

\* the handler's code after `await processFiles(...)` / `await
\* processDroppedPaths(...)`: nothing but the finally block once aborted
\* The drop zone and the pickers clear abortRef in their finally block, the
\* window-level drop handler clears globalAbortRef.  An import that was not
\* aborted sets the status and a timer that clears it; the browser path of
\* the drop zone also sets its safety timer, aborted or not.
HandlerReturn(s, im) ==
  /\ imp' = [im EXCEPT ![s].pc = "done"]
  /\ abortRef' = IF im[s].entry = "global" THEN abortRef ELSE 0
  /\ globalAbortRef' = IF im[s].entry = "global" THEN 0 ELSE globalAbortRef
  /\ isLoading' = IF im[s].aborted THEN isLoading ELSE FALSE
  /\ loadingTimers' =
       [clear |-> loadingTimers.clear + (IF im[s].aborted THEN 0 ELSE 1),
        safety |-> loadingTimers.safety +
                     (IF im[s].entry = "zone" /\ im[s].path = "browser" THEN 1 ELSE 0)]

\* handleFilesSelected(files) from the Files / Folder pickers (shown while
\* nothing is loading) up to the first await of processFiles
handleFilesSelected(s, n, fail) ==
  /\ ~isLoading
  /\ imp[s].pc = "ready"
  /\ n > 0
  /\ abortRef' = s
  /\ isLoading' = TRUE
  /\ imp' = [imp EXCEPT ![s].pc = "batch", ![s].entry = "picker", ![s].path = "browser",
                        ![s].n = n, ![s].fail = fail]
  /\ dispatched' = [dispatched EXCEPT ![s] = @ + 1]
  /\ UNCHANGED <<globalAbortRef, loadingTimers>>
  /\ UNCHANGED <<env, files, ipcToMain, ipcToRenderer, poolVars>>

\* handleDrop(e) up to its first await: processDroppedPaths in Electron,
\* processFiles in the browser (where a drop without files returns early)
handleDrop(s, n, fail) ==
  /\ imp[s].pc = "ready"
  /\ abortRef' = s
  /\ IF env = "browser"
       THEN IF n = 0
              THEN /\ isLoading' = FALSE
                   /\ loadingTimers' = [loadingTimers EXCEPT !.clear = @ + 1]
                   /\ imp' = [imp EXCEPT ![s].pc = "done", ![s].entry = "zone",
                                         ![s].path = "browser"]
                   /\ UNCHANGED dispatched
              ELSE /\ isLoading' = TRUE
                   /\ imp' = [imp EXCEPT ![s].pc = "batch", ![s].entry = "zone",
                                         ![s].path = "browser", ![s].n = n, ![s].fail = fail]
                   /\ dispatched' = [dispatched EXCEPT ![s] = @ + 1]
                   /\ UNCHANGED loadingTimers
       ELSE /\ isLoading' = TRUE
            /\ imp' = [imp EXCEPT ![s].pc = "expand", ![s].entry = "zone",
                                  ![s].path = IF env = "electron" THEN "pool" ELSE "fallback",
                                  ![s].n = n, ![s].fail = fail]
            /\ UNCHANGED <<dispatched, loadingTimers>>
  /\ UNCHANGED globalAbortRef
  /\ UNCHANGED <<env, files, ipcToMain, ipcToRenderer, poolVars>>

\* processFiles: Promise.all of the current batch settles; results, onBatch,
\* onProgress, then the setTimeout(0) await
processFilesBatchDone(s) ==
  /\ imp[s].pc = "batch"
  /\ LET batchResults == BrowserBatch(s, imp[s].fail, imp[s].i + 1,
                                      Min2(BATCH_SIZE, imp[s].n - imp[s].i))
         validResults == SelectSeq(batchResults, IsFile)
     IN  /\ imp' = [imp EXCEPT ![s].results = @ \o validResults, ![s].pc = "timer"]
         /\ onBatch(validResults)
  /\ UNCHANGED <<env, abortRef, globalAbortRef, isLoading, loadingTimers, dispatched, ipcToMain, ipcToRenderer, poolVars>>

\* the loop head after the setTimeout(0) await: i += BATCH_SIZE, the loop
\* condition and `if (signal?.aborted) break`; leaving the loop returns to the
\* handler
LoopNext(s, awaiting) ==
  IF imp[s].i + BATCH_SIZE < imp[s].n /\ ~imp[s].aborted
    THEN /\ imp' = [imp EXCEPT ![s].i = @ + BATCH_SIZE, ![s].pc = awaiting]
         /\ dispatched' = [dispatched EXCEPT ![s] = @ + 1]
         /\ UNCHANGED <<abortRef, globalAbortRef, isLoading, loadingTimers>>
    ELSE /\ HandlerReturn(s, [imp EXCEPT ![s].i = @ + BATCH_SIZE])
         /\ UNCHANGED dispatched

processFilesNext(s) ==
  /\ imp[s].pc = "timer"
  /\ imp[s].path = "browser"
  /\ LoopNext(s, "batch")
  /\ UNCHANGED <<env, files, ipcToMain, ipcToRenderer, poolVars>>

\* processDroppedPaths after the directory expansion: the dropped folder
\* holds n files.  Pool: listener and invoke.  Fallback: first read-ahead and
\* the first loop head.
DroppedPathsExpanded(s) ==
  /\ imp[s].pc = "expand"
  /\ IF imp[s].n = 0
       THEN HandlerReturn(s, imp) /\ UNCHANGED <<dispatched, ipcToMain>>
       ELSE IF imp[s].path = "pool"
         THEN /\ imp' = [imp EXCEPT ![s].listening = TRUE, ![s].pc = "invoke"]
              /\ ipcToMain' = Append(ipcToMain, [call |-> s, total |-> imp[s].n])
              /\ UNCHANGED <<abortRef, globalAbortRef, isLoading, loadingTimers, dispatched>>
         ELSE IF imp[s].aborted
           THEN HandlerReturn(s, imp) /\ UNCHANGED <<dispatched, ipcToMain>>
           ELSE /\ imp' = [imp EXCEPT ![s].pc = "read"]
                /\ dispatched' = [dispatched EXCEPT ![s] = @ + 1]
                /\ UNCHANGED <<abortRef, globalAbortRef, isLoading, loadingTimers, ipcToMain>>
  /\ UNCHANGED <<env, files, ipcToRenderer, poolVars>>

\* fallback: the pre-fetched batch arrives and is parsed in the renderer
FallbackBatchRead(s) ==
  /\ imp[s].pc = "read"
  /\ LET batchData == readFilesBatch(imp[s].fail, imp[s].i + 1,
                                     Min2(BATCH_SIZE, imp[s].n - imp[s].i))
         batchResults == FallbackBatch(s, batchData, imp[s].i + 1)
     IN  /\ imp' = [imp EXCEPT ![s].results = @ \o batchResults, ![s].pc = "timer"]
         /\ onBatch(batchResults)
  /\ UNCHANGED <<env, abortRef, globalAbortRef, isLoading, loadingTimers, dispatched, ipcToMain, ipcToRenderer, poolVars>>

FallbackNext(s) ==
  /\ imp[s].pc = "timer"
  /\ imp[s].path = "fallback"
  /\ LoopNext(s, "read")
  /\ UNCHANGED <<env, files, ipcToMain, ipcToRenderer, poolVars>>

\* a Cancel that also empties the store
handleCancelImport_clearFiles ==
  /\ isLoading
  /\ imp' = IF abortRef /= 0 THEN [imp EXCEPT ![abortRef].aborted = TRUE] ELSE imp
  /\ abortRef' = 0
  /\ isLoading' = FALSE
  /\ loadingTimers' = [loadingTimers EXCEPT !.clear = @ + 1]
  /\ files' = <<>>
  /\ UNCHANGED globalAbortRef
  /\ UNCHANGED <<env, dispatched, ipcToMain, ipcToRenderer, poolVars>>

\* the Cancel button, rendered while isLoading
handleCancelImport ==
  /\ isLoading
  /\ imp' = IF abortRef /= 0 THEN [imp EXCEPT ![abortRef].aborted = TRUE] ELSE imp
  /\ abortRef' = 0
  /\ isLoading' = FALSE
  /\ loadingTimers' = [loadingTimers EXCEPT !.clear = @ + 1]
  /\ UNCHANGED <<env, files, globalAbortRef, dispatched, ipcToMain, ipcToRenderer, poolVars>>

\* App's window-level drop handler (a drop outside the drop zone) up to its
\* first await: globalAbortRef takes the controller; in the browser a drop
\* without files returns without touching the store
handleGlobalDrop(s, n, fail) ==
  /\ imp[s].pc = "ready"
  /\ globalAbortRef' = s
  /\ IF env = "browser" /\ n = 0
       THEN /\ imp' = [imp EXCEPT ![s].pc = "done", ![s].entry = "global"]
            /\ UNCHANGED <<isLoading, dispatched>>
       ELSE IF env = "browser"
         THEN /\ isLoading' = TRUE
              /\ imp' = [imp EXCEPT ![s].pc = "batch", ![s].entry = "global",
                                    ![s].path = "browser", ![s].n = n, ![s].fail = fail]
              /\ dispatched' = [dispatched EXCEPT ![s] = @ + 1]
         ELSE /\ isLoading' = TRUE
              /\ imp' = [imp EXCEPT ![s].pc = "expand", ![s].entry = "global",
                                    ![s].path = IF env = "electron" THEN "pool" ELSE "fallback",
                                    ![s].n = n, ![s].fail = fail]
              /\ UNCHANGED dispatched
  /\ UNCHANGED <<env, files, abortRef, loadingTimers, ipcToMain, ipcToRenderer, poolVars>>

\* a pending timer fires: setLoading(false, ''), the drop zone's safety timer
\* only while abortRef.current is null
LoadingTimerFires(kind) ==
  /\ loadingTimers[kind] > 0
  /\ loadingTimers' = [loadingTimers EXCEPT ![kind] = @ - 1]
  /\ isLoading' = IF kind = "safety" /\ abortRef /= 0 THEN isLoading ELSE FALSE
  /\ UNCHANGED <<env, imp, files, abortRef, globalAbortRef, dispatched, ipcToMain,
                 ipcToRenderer, poolVars>>

\* the onParseBatch listeners: every registered listener gets the event
RendererOnParseBatch ==
  /\ Len(ipcToRenderer) > 0
  /\ Head(ipcToRenderer).type = "parse-batch"
  /\ LET batch == Head(ipcToRenderer)
         hears(s) == imp[s].listening /\ Len(batch.results) > 0
     IN  /\ imp' = [s \in DOMAIN imp |->
                      IF hears(s) THEN [imp[s] EXCEPT !.results = @ \o batch.results]
                                  ELSE imp[s]]
         /\ IF \E s \in DOMAIN imp : hears(s) THEN onBatch(batch.results)
                                             ELSE UNCHANGED files
  /\ ipcToRenderer' = Tail(ipcToRenderer)
  /\ UNCHANGED <<env, abortRef, globalAbortRef, isLoading, loadingTimers, dispatched, ipcToMain, poolVars>>

\* the invoke of parseFilesParallel resolves: cleanup(), return results
RendererOnInvokeReply ==
  /\ Len(ipcToRenderer) > 0
  /\ Head(ipcToRenderer).type = "reply"
  /\ HandlerReturn(Head(ipcToRenderer).call,
                   [imp EXCEPT ![Head(ipcToRenderer).call].listening = FALSE])
  /\ ipcToRenderer' = Tail(ipcToRenderer)
  /\ UNCHANGED <<env, files, dispatched, ipcToMain, poolVars>>

\* ---- main process: 'parse-files-parallel' and the worker threads ---------
MIN_CHUNK == 5

\* ipcMain.handle('parse-files-parallel') up to `await Promise.all(...)`
MainParseFilesParallel ==
  /\ Len(ipcToMain) > 0
  /\ LET s == Head(ipcToMain).call
         total == Head(ipcToMain).total
         chunkSize == IF Ceil(total, PoolSize) > MIN_CHUNK THEN Ceil(total, PoolSize)
                                                          ELSE MIN_CHUNK
         call == [pc |-> "running", total |-> total, chunkSize |-> chunkSize,
                  chunkJ |-> [c \in 1..Ceil(total, chunkSize) |-> 0],
                  completed |-> 0, allResults |-> 0]
     IN  /\ calls' = [calls EXCEPT ![s] = call]
         /\ PoolAssign(StartChunks(PoolState, s, call, 1))
         /\ dispatched' = [dispatched EXCEPT ![s] = @ + Len(call.chunkJ)]
  /\ ipcToMain' = Tail(ipcToMain)
  /\ UNCHANGED <<env, imp, abortRef, globalAbortRef, isLoading, loadingTimers, files, ipcToRenderer, workerOutbox,
                 workerExited>>

\* a worker thread handles one 'parse-files' message and posts its result
WorkerParse(w) ==
  /\ w \notin workerExited
  /\ Len(workerInbox[w]) > 0
  /\ LET msg == Head(workerInbox[w])
         results == WorkerParseFiles(msg.call, imp[msg.call].fail, msg.from, msg.len)
     IN  workerOutbox' = [workerOutbox EXCEPT
                            ![w] = Append(@, [requestId |-> msg.requestId,
                                              results |-> results])]
  /\ workerInbox' = [workerInbox EXCEPT ![w] = Tail(@)]
  /\ UNCHANGED <<rendererVars, files, calls, workerBusy, pendingRequests,
                 requestIdCounter, activeResolvers, submitCounter, workerExited>>

\* a count of the parsed files only
CountSubBatch_validOnly(completed, subBatch, valid) == completed + Len(valid)

\* completed += subBatch.length
CountSubBatch(completed, subBatch, valid) == completed + subBatch.len

\* worker.on('message') for a 'parse-result', followed in the same task by
\* the continuation of the chunk that awaited it: 'parse-batch' is sent, the
\* chunk's next sub-batch is handed to the pool, and the handler returns
\* once every chunk is through
MainOnParseResult(w) ==
  /\ Len(workerOutbox[w]) > 0
  /\ LET msg == Head(workerOutbox[w])
         r == CHOOSE a \in activeResolvers : a.rid = msg.requestId
         freed == processQueue([PoolState EXCEPT !.busy[w] = FALSE,
                                                 !.resolvers = @ \ {r}])
         s == r.call
         c == r.chunk
         call == calls[s]
         valid == SelectSeq(msg.results, IsFile)
         j == call.chunkJ[c] + SUB_BATCH
         more == j < ChunkLen(call, c)
         chunkJ == [call.chunkJ EXCEPT ![c] = IF more THEN j ELSE -1]
         allDone == \A d \in 1..Len(chunkJ) : chunkJ[d] = -1
         subBatch == SubBatch(s, call, c, call.chunkJ[c])
         completed == CountSubBatch(call.completed, subBatch, valid)
         batch == [type |-> "parse-batch", results |-> valid,
                   completed |-> completed, total |-> call.total]
     IN  /\ PoolAssign(IF more THEN parseFilesInWorker(freed, SubBatch(s, call, c, j))
                               ELSE freed)
         /\ dispatched' = [dispatched EXCEPT ![s] = IF more THEN @ + 1 ELSE @]
         /\ calls' = [calls EXCEPT ![s] =
                        [call EXCEPT !.chunkJ = chunkJ,
                                     !.completed = completed,
                                     !.allResults = @ + Len(valid),
                                     !.pc = IF allDone THEN "returned" ELSE "running"]]
         /\ ipcToRenderer' =
              IF allDone
                THEN ipcToRenderer \o <<batch, [type |-> "reply", call |-> s]>>
                ELSE Append(ipcToRenderer, batch)
  /\ workerOutbox' = [workerOutbox EXCEPT ![w] = Tail(@)]
  /\ UNCHANGED <<env, imp, abortRef, globalAbortRef, isLoading, loadingTimers, files, ipcToMain, workerExited>>

\* a worker thread ends with an uncaught exception while it handles a
\* 'parse-files' message (the message is lost with it), and worker.on('error')
\* runs: workerBusy[i] = false; processQueue(). What is posted to the worker
\* from then on is never handled.
MainOnWorkerError(w) ==
  /\ w \notin workerExited
  /\ Len(workerInbox[w]) > 0
  /\ workerExited' = workerExited \cup {w}
  /\ PoolAssign(processQueue([PoolState EXCEPT !.busy[w] = FALSE,
                                               !.inbox[w] = Tail(@)]))
  /\ UNCHANGED <<rendererVars, files, calls, workerOutbox>>

Envs == {"browser", "electron", "electron-nopool"}

PoolIdle ==
  /\ calls = [s \in ImportIds |-> NoCall]
  /\ workerBusy = [w \in 1..PoolSize |-> FALSE]
  /\ pendingRequests = <<>>
  /\ requestIdCounter = 0
  /\ activeResolvers = {}
  /\ workerInbox = [w \in 1..PoolSize |-> <<>>]
  /\ workerOutbox = [w \in 1..PoolSize |-> <<>>]
  /\ submitCounter = 0
  /\ workerExited = {}

RendererIdle ==
  /\ abortRef = 0
  /\ isLoading = FALSE
  /\ globalAbortRef = 0
  /\ loadingTimers = NoTimers
  /\ dispatched = [s \in ImportIds |-> 0]
  /\ ipcToMain = <<>>
  /\ ipcToRenderer = <<>>

\* no import handler runs in the other specifications
ImportIdle ==
  /\ env = "browser"
  /\ imp = [s \in ImportIds |-> [ReadyImport EXCEPT !.pc = "unused"]]
  /\ RendererIdle
  /\ PoolIdle

\* the store is empty or holds a file of an earlier import
ImportInit ==
  /\ env \in Envs
  /\ imp = [s \in ImportIds |-> ReadyImport]
  /\ RendererIdle
  /\ PoolIdle
  /\ files \in {<<>>, <<ImportedFile(FileId(0, 1))>>}

\* ---- two overlapping drops: the drop zone stays active while loading ------
PoolCallIds == {1, 2}

\* a folder of two chunks and one whose first chunk has a
\* second sub-batch
PoolDropSizes == {MIN_CHUNK + 1, 2 * SUB_BATCH + 1}

\* the first file of a dropped folder is malformed
PoolDropFailures == { {<<1, "malformed">>} }

PoolInit ==
  /\ env = "electron"
  /\ imp = [s \in PoolCallIds |-> ReadyImport]
  /\ abortRef = 0
  /\ isLoading = FALSE
  /\ globalAbortRef = 0
  /\ loadingTimers = NoTimers
  /\ dispatched = [s \in PoolCallIds |-> 0]
  /\ ipcToMain = <<>>
  /\ ipcToRenderer = <<>>
  /\ calls = [s \in PoolCallIds |-> NoCall]
  /\ workerBusy = [w \in 1..PoolSize |-> FALSE]
  /\ pendingRequests = <<>>
  /\ requestIdCounter = 0
  /\ activeResolvers = {}
  /\ workerInbox = [w \in 1..PoolSize |-> <<>>]
  /\ workerOutbox = [w \in 1..PoolSize |-> <<>>]
  /\ submitCounter = 0
  /\ workerExited = {}
  /\ files = <<>>

\* ---- imports from every entry point, Cancel and the status timers --------
\* a drop without files and one of a single good file
LoadSizes == {0, 1}

LoadInit ==
  /\ env \in Envs
  /\ imp = [s \in PoolCallIds |-> ReadyImport]
  /\ abortRef = 0
  /\ isLoading = FALSE
  /\ globalAbortRef = 0
  /\ loadingTimers = NoTimers
  /\ dispatched = [s \in PoolCallIds |-> 0]
  /\ ipcToMain = <<>>
  /\ ipcToRenderer = <<>>
  /\ calls = [s \in PoolCallIds |-> NoCall]
  /\ workerBusy = [w \in 1..PoolSize |-> FALSE]
  /\ pendingRequests = <<>>
  /\ requestIdCounter = 0
  /\ activeResolvers = {}
  /\ workerInbox = [w \in 1..PoolSize |-> <<>>]
  /\ workerOutbox = [w \in 1..PoolSize |-> <<>>]
  /\ submitCounter = 0
  /\ workerExited = {}
  /\ files = <<>>



\* ===========================================================================
\* Per-instance channel visibility: settingsStore, PlotLegend, CurvePlot
\* ===========================================================================
UNGROUPED == "ungrouped"

\* Two loaded files: run-A with a channel over "s" and one over "mm", run-B
\* with a channel over "s" that carries one group of line annotations.
VisChA == [id |-> "a", xName |-> "s", yName |-> "F", description |-> "force", lineGroups |-> 0]

VisChB == [id |-> "b", xName |-> "mm", yName |-> "F", description |-> "force", lineGroups |-> 0]

VisChC == [id |-> "c", xName |-> "s", yName |-> "P", description |-> "", lineGroups |-> 1]

VisFileA == [id |-> 1, name |-> "run-A", curves |-> <<VisChA, VisChB>>]

VisFileB == [id |-> 2, name |-> "run-B", curves |-> <<VisChC>>]

Ref(f, c) == [fileId |-> f, channelId |-> c]

\* group.channels of the first and of the second group
GroupChannelLists1 == { <<Ref(1, "a"), Ref(1, "b"), Ref(2, "c")>> }

GroupChannelLists2 == { <<Ref(1, "b"), Ref(1, "a")>> }

\* the tree view's checked channels ("fileId::channelId" keys, in Set order)
TreeSelections == { <<>>, <<Ref(1, "b"), Ref(1, "a")>> }

\* files.find((f) => f.id === fileId)?.curves.find((c) => c.id === channelId)
HasChannel(fileId, channelId) ==
  \E k \in 1..Len(files) :
    /\ files[k].id = fileId
    /\ \A j \in 1..(k - 1) : files[j].id /= fileId
    /\ \E m \in 1..Len(files[k].curves) : files[k].curves[m].id = channelId

FindChannel(fileId, channelId) ==
  LET file == files[CHOOSE k \in 1..Len(files) :
                      files[k].id = fileId /\ \A j \in 1..(k - 1) : files[j].id /= fileId]
  IN  file.curves[CHOOSE m \in 1..Len(file.curves) :
                    /\ file.curves[m].id = channelId
                    /\ \A j \in 1..(m - 1) : file.curves[j].id /= channelId]

Instance(g, f, c) == [groupId |-> g, fileId |-> f, channelId |-> c]

RECURSIVE GroupTuples_stopAtDangling(_, _, _, _)
\* a resolver that gives up on a group at its first dangling ref
GroupTuples_stopAtDangling(groupId, refs, k, acc) ==
  IF k > Len(refs) THEN acc
  ELSE LET t == Instance(groupId, refs[k].fileId, refs[k].channelId)
       IN  IF ~HasChannel(t.fileId, t.channelId) THEN acc
           ELSE IF ~\E j \in 1..Len(acc) : acc[j] = t
             THEN GroupTuples_stopAtDangling(groupId, refs, k + 1, Append(acc, t))
             ELSE GroupTuples_stopAtDangling(groupId, refs, k + 1, acc)


RECURSIVE GroupTuples(_, _, _, _)
\* the loop over group.channels of allChannels: dangling refs are skipped,
\* a key already seen is not added again
GroupTuples(groupId, refs, k, acc) ==
  IF k > Len(refs) THEN acc
  ELSE LET t == Instance(groupId, refs[k].fileId, refs[k].channelId)
       IN  IF HasChannel(t.fileId, t.channelId) /\ ~\E j \in 1..Len(acc) : acc[j] = t
             THEN GroupTuples(groupId, refs, k + 1, Append(acc, t))
             ELSE GroupTuples(groupId, refs, k + 1, acc)

RECURSIVE ActiveGroupTuples(_, _)
ActiveGroupTuples(k, acc) ==
  IF k > Len(groups) THEN acc
  ELSE ActiveGroupTuples(k + 1,
         IF groups[k].isActive THEN GroupTuples(groups[k].id, groups[k].channels, 1, acc)
                               ELSE acc)

\* the loop over treeSelection of allChannels: the key it looks up and adds
\* is `ungrouped-${fileId}-${channelId}`
SelectionTuples(acc) ==
  LET isNew(r) == /\ HasChannel(r.fileId, r.channelId)
                  /\ ~\E j \in 1..Len(acc) :
                        acc[j] = Instance(UNGROUPED, r.fileId, r.channelId)
      sel == SelectSeq(treeSelection, isNew)
  IN  acc \o [k \in 1..Len(sel) |-> Instance(UNGROUPED, sel[k].fileId, sel[k].channelId)]

\* CurvePlot: allChannels, as (groupId, fileId, channelId) tuples
allChannels == SelectionTuples(ActiveGroupTuples(1, <<>>))

\* getUniqueXAxes(files.flatMap((f) => f.curves))
RECURSIVE FlatCurves(_)
FlatCurves(k) == IF k > Len(files) THEN <<>> ELSE files[k].curves \o FlatCurves(k + 1)

availableXAxes ==
  LET named(ch) == ch.xName /= ""
      all == SelectSeq(FlatCurves(1), named)
  IN  Dedupe([k \in 1..Len(all) |-> all[k].xName], <<>>)

\* CurvePlot: plotSettings.activeXAxis || availableXAxes[0] || ''
PlotActiveXAxis ==
  IF storeActiveXAxis /= "" THEN storeActiveXAxis
  ELSE IF Len(availableXAxes) > 0 THEN availableXAxes[1] ELSE ""

\* CurvePlot: visibleChannels
visibleChannels ==
  LET onAxis(t) == FindChannel(t.fileId, t.channelId).xName = PlotActiveXAxis
  IN  SelectSeq(allChannels, onAxis)

Matches(e, g, f, c) == e.groupId = g /\ e.fileId = f /\ e.channelId = c

\* visibilityMap.get(key) over every groupId: the last entry set for the
\* channel wins, whichever group it was written for
VisibilityMapGet_byChannel(cv, g, f, c) ==
  IF \E k \in 1..Len(cv) : cv[k].fileId = f /\ cv[k].channelId = c
    THEN cv[CHOOSE k \in 1..Len(cv) :
              /\ cv[k].fileId = f /\ cv[k].channelId = c
              /\ \A j \in (k + 1)..Len(cv) : ~(cv[j].fileId = f /\ cv[j].channelId = c)].visible
    ELSE TRUE

\* a lookup that treats a missing entry as hidden
VisibilityMapGet_missingHidden(cv, g, f, c) ==
  IF \E k \in 1..Len(cv) : Matches(cv[k], g, f, c)
    THEN cv[CHOOSE k \in 1..Len(cv) :
              /\ Matches(cv[k], g, f, c)
              /\ \A j \in (k + 1)..Len(cv) : ~Matches(cv[j], g, f, c)].visible
    ELSE FALSE


\* visibilityMap.get(`${groupId}|${file.id}|${channel.id}`): map.set in a
\* loop keeps the last entry of a key; `cv ? cv.visible : true`
VisibilityMapGet(cv, g, f, c) ==
  IF \E k \in 1..Len(cv) : Matches(cv[k], g, f, c)
    THEN cv[CHOOSE k \in 1..Len(cv) :
              /\ Matches(cv[k], g, f, c)
              /\ \A j \in (k + 1)..Len(cv) : ~Matches(cv[j], g, f, c)].visible
    ELSE TRUE

\* CurvePlot: filteredChannels
filteredChannels ==
  LET shown(t) == VisibilityMapGet(channelVisibility, t.groupId, t.fileId, t.channelId)
  IN  SelectSeq(visibleChannels, shown)

\* cv.findIndex(...) (1-based, 0 for -1)
FindIndex(cv, g, f, c) ==
  IF \E k \in 1..Len(cv) : Matches(cv[k], g, f, c)
    THEN CHOOSE k \in 1..Len(cv) :
           Matches(cv[k], g, f, c) /\ \A j \in 1..(k - 1) : ~Matches(cv[j], g, f, c)
    ELSE 0

AllElements == [lines |-> TRUE, windows |-> TRUE, circles |-> TRUE]

NewEntry(g, f, c, visible) ==
  [groupId |-> g, fileId |-> f, channelId |-> c, visible |-> visible,
   visibleElements |-> AllElements, hiddenElementGroups |-> {}]

\* settingsStore.setChannelVisible, as a function of the entry list
setChannelVisible(cv, g, f, c, visible) ==
  IF FindIndex(cv, g, f, c) > 0
    THEN [cv EXCEPT ![FindIndex(cv, g, f, c)].visible = visible]
    ELSE Append(cv, NewEntry(g, f, c, visible))

RECURSIVE setMultipleChannelsVisible_anyGroup(_, _, _)
\* a batch update that writes every entry of the channel, whatever its group
setMultipleChannelsVisible_anyGroup(cv, entries, visible) ==
  IF entries = <<>> THEN cv
  ELSE LET e == Head(entries)
           upd == [k \in 1..Len(cv) |->
                     IF cv[k].fileId = e.fileId /\ cv[k].channelId = e.channelId
                       THEN [cv[k] EXCEPT !.visible = visible] ELSE cv[k]]
       IN  setMultipleChannelsVisible_anyGroup(
             IF FindIndex(cv, e.groupId, e.fileId, e.channelId) > 0 THEN upd
             ELSE Append(upd, NewEntry(e.groupId, e.fileId, e.channelId, visible)),
             Tail(entries), visible)

RECURSIVE setMultipleChannelsVisible(_, _, _)
\* settingsStore.setMultipleChannelsVisible
setMultipleChannelsVisible(cv, entries, visible) ==
  IF entries = <<>> THEN cv
  ELSE setMultipleChannelsVisible(
         setChannelVisible(cv, Head(entries).groupId, Head(entries).fileId,
                           Head(entries).channelId, visible),
         Tail(entries), visible)

\* settingsStore.setChannelElementVisible
setChannelElementVisible(cv, g, f, c, element, visible) ==
  IF FindIndex(cv, g, f, c) > 0
    THEN [cv EXCEPT ![FindIndex(cv, g, f, c)].visibleElements[element] = visible]
    ELSE Append(cv, [NewEntry(g, f, c, TRUE) EXCEPT !.visibleElements[element] = visible])

\* settingsStore.setElementGroupVisible
setElementGroupVisible(cv, g, f, c, elementGroupKey, visible) ==
  IF FindIndex(cv, g, f, c) > 0
    THEN [cv EXCEPT ![FindIndex(cv, g, f, c)].hiddenElementGroups =
                       IF visible THEN @ \ {elementGroupKey} ELSE @ \cup {elementGroupKey}]
    ELSE Append(cv, [NewEntry(g, f, c, TRUE) EXCEPT
                       !.hiddenElementGroups = IF visible THEN {} ELSE {elementGroupKey}])

\* settingsStore.isChannelVisible(groupId, fileId, channelId):
\* `entry ? entry.visible : true` for the first matching entry
isChannelVisible(g, f, c) ==
  IF FindIndex(channelVisibility, g, f, c) > 0
    THEN channelVisibility[FindIndex(channelVisibility, g, f, c)].visible
    ELSE TRUE


\* PlotLegend: getVisibility(groupId, fileId, channelId)
getVisibility(g, f, c) ==
  IF FindIndex(channelVisibility, g, f, c) > 0
    THEN channelVisibility[FindIndex(channelVisibility, g, f, c)]
    ELSE NewEntry(g, f, c, TRUE)

\* PlotLegend: the refs of a legend entry that are listed: the file and the
\* channel exist and `!(activeXAxis && channel.xName !== activeXAxis)`
Listed(r) ==
  /\ HasChannel(r.fileId, r.channelId)
  /\ (storeActiveXAxis = "" \/ FindChannel(r.fileId, r.channelId).xName = storeActiveXAxis)

RECURSIVE ByFile(_, _, _)
\* entry.files.flatMap((f) => f.channels...): the listed refs file by file,
\* the files in the order of their first ref
ByFile(groupId, refs, fileIds) ==
  IF fileIds = <<>> THEN <<>>
  ELSE LET ofFile(r) == r.fileId = Head(fileIds)
           own == SelectSeq(refs, ofFile)
       IN  [k \in 1..Len(own) |-> Instance(groupId, own[k].fileId, own[k].channelId)]
             \o ByFile(groupId, refs, Tail(fileIds))

\* one LegendEntry: its groupId and its channel instances
LegendEntry(groupId, refs) ==
  LET kept == SelectSeq(refs, Listed)
  IN  [groupId |-> groupId,
       instances |-> ByFile(groupId, kept,
                            Dedupe([k \in 1..Len(kept) |-> kept[k].fileId], <<>>))]

RECURSIVE GroupEntries(_)
GroupEntries(k) ==
  IF k > Len(groups) THEN <<>>
  ELSE LET e == LegendEntry(groups[k].id, groups[k].channels)
       IN  (IF groups[k].isActive /\ Len(e.instances) > 0 THEN <<e>> ELSE <<>>)
             \o GroupEntries(k + 1)

\* PlotLegend: legendEntries
legendEntries ==
  LET u == LegendEntry(UNGROUPED, treeSelection)
  IN  GroupEntries(1) \o (IF Len(u.instances) > 0 THEN <<u>> ELSE <<>>)

\* getGroupVisState(entry).allVisible / getFileVisState(...).allVisible
AllVisible(instances) ==
  \A k \in 1..Len(instances) :
    getVisibility(instances[k].groupId, instances[k].fileId, instances[k].channelId).visible

InstanceSet(instances) == {instances[k] : k \in 1..Len(instances)}

\* React runs CurvePlot's effects after a render and before the next user
\* event: the legend is operated with the X axis already selected.
EffectsSettled == storeActiveXAxis /= "" \/ Len(availableXAxes) = 0

\* useEffect: auto-select the first X axis if none is selected
AutoSelectXAxis ==
  /\ Len(availableXAxes) > 0
  /\ storeActiveXAxis = ""
  /\ storeActiveXAxis' = availableXAxes[1]
  /\ UNCHANGED <<files, groups, treeSelection, channelVisibility, hiddenInstances>>

\* groupStore.toggleGroupActive(groupId)
toggleGroupActive(groupId) ==
  /\ \E k \in 1..Len(groups) : groups[k].id = groupId
  /\ groups' = [k \in 1..Len(groups) |->
                  IF groups[k].id = groupId
                    THEN [groups[k] EXCEPT !.isActive = ~@] ELSE groups[k]]
  /\ UNCHANGED <<files, treeSelection, storeActiveXAxis, channelVisibility, hiddenInstances>>

\* settingsStore.setTreeSelection(sel)
setTreeSelection(sel) ==
  /\ treeSelection' = sel
  /\ UNCHANGED <<files, groups, storeActiveXAxis, channelVisibility, hiddenInstances>>

\* PlotLegend: toggleGroupVisibility(entry); setting visible ends a hiding,
\* setting hidden starts one
toggleGroupVisibility(entry) ==
  /\ EffectsSettled
  /\ LET newVisible == ~AllVisible(entry.instances)
     IN  /\ channelVisibility' =
              setMultipleChannelsVisible(channelVisibility, entry.instances, newVisible)
         /\ hiddenInstances' = IF newVisible
                                 THEN hiddenInstances \ InstanceSet(entry.instances)
                                 ELSE hiddenInstances \cup InstanceSet(entry.instances)
  /\ UNCHANGED <<files, groups, treeSelection, storeActiveXAxis>>

\* PlotLegend: toggleFileVisibility(groupId, fileEntry)
toggleFileVisibility(entry, fileId) ==
  /\ EffectsSettled
  /\ LET ofFile(t) == t.fileId = fileId
         entries == SelectSeq(entry.instances, ofFile)
         newVisible == ~AllVisible(entries)
     IN  /\ Len(entries) > 0
         /\ channelVisibility' = setMultipleChannelsVisible(channelVisibility, entries, newVisible)
         /\ hiddenInstances' = IF newVisible THEN hiddenInstances \ InstanceSet(entries)
                                             ELSE hiddenInstances \cup InstanceSet(entries)
  /\ UNCHANGED <<files, groups, treeSelection, storeActiveXAxis>>

\* PlotLegend: the checkbox of a channel row,
\* setChannelVisible(entry.groupId, fileEntry.fileId, ch.channelId, !vis.visible)
LegendChannelToggle(t) ==
  /\ EffectsSettled
  /\ LET visible == ~getVisibility(t.groupId, t.fileId, t.channelId).visible
     IN  /\ channelVisibility' =
              setChannelVisible(channelVisibility, t.groupId, t.fileId, t.channelId, visible)
         /\ hiddenInstances' = IF visible THEN hiddenInstances \ {t}
                                          ELSE hiddenInstances \cup {t}
  /\ UNCHANGED <<files, groups, treeSelection, storeActiveXAxis>>

RECURSIVE SetEachVisible(_, _, _)
\* for (const {...} of matching) store.setChannelVisible(..., newVisible)
SetEachVisible(cv, matching, visible) ==
  IF matching = <<>> THEN cv
  ELSE SetEachVisible(setChannelVisible(cv, Head(matching).groupId, Head(matching).fileId,
                                        Head(matching).channelId, visible),
                      Tail(matching), visible)

\* CurvePlot: toggleDescription(description)
toggleDescription(description) ==
  /\ EffectsSettled
  /\ LET named(t) == LET ch == FindChannel(t.fileId, t.channelId)
                     IN  (IF ch.description /= "" THEN ch.description ELSE ch.yName)
                           = description
         matching == SelectSeq(visibleChannels, named)
         newVisible == ~AllVisible(matching)
     IN  /\ Len(matching) > 0
         /\ channelVisibility' = SetEachVisible(channelVisibility, matching, newVisible)
         /\ hiddenInstances' = IF newVisible THEN hiddenInstances \ InstanceSet(matching)
                                             ELSE hiddenInstances \cup InstanceSet(matching)
  /\ UNCHANGED <<files, groups, treeSelection, storeActiveXAxis>>

\* PlotLegend: the Lines checkbox of a channel that has line groups
LegendElementToggle(t) ==
  /\ EffectsSettled
  /\ FindChannel(t.fileId, t.channelId).lineGroups > 0
  /\ channelVisibility' =
       setChannelElementVisible(channelVisibility, t.groupId, t.fileId, t.channelId, "lines",
                                ~getVisibility(t.groupId, t.fileId, t.channelId)
                                   .visibleElements.lines)
  /\ UNCHANGED <<files, groups, treeSelection, storeActiveXAxis, hiddenInstances>>

\* PlotLegend: the checkbox of the channel's first line group (disabled
\* while the Lines type is hidden)
LegendElementGroupToggle(t) ==
  /\ EffectsSettled
  /\ FindChannel(t.fileId, t.channelId).lineGroups > 0
  /\ getVisibility(t.groupId, t.fileId, t.channelId).visibleElements.lines
  /\ channelVisibility' =
       setElementGroupVisible(channelVisibility, t.groupId, t.fileId, t.channelId, "lines-0",
                              "lines-0" \in getVisibility(t.groupId, t.fileId, t.channelId)
                                              .hiddenElementGroups)
  /\ UNCHANGED <<files, groups, treeSelection, storeActiveXAxis, hiddenInstances>>

\* fileStore.removeFile(fileId), the tree view's "Remove file" button: groups,
\* the tree selection and the visibility entries keep their refs to the file
removeFile(fileId) ==
  /\ \E k \in 1..Len(files) : files[k].id = fileId
  /\ files' = SelectSeq(files, LAMBDA f : f.id /= fileId)
  /\ UNCHANGED <<groups, treeSelection, storeActiveXAxis, channelVisibility, hiddenInstances>>

\* the tree view's checked channels while files are being removed
ResolveSelections == TreeSelections \cup { <<Ref(2, "c")>>, <<Ref(2, "c"), Ref(1, "a")>> }


\* the legend entries and the channel rows the legend shows
LegendEntrySet == {legendEntries[k] : k \in 1..Len(legendEntries)}

LegendRows == UNION {InstanceSet(e.instances) : e \in LegendEntrySet}

\* no group exists and nothing is selected or overridden in the other
\* specifications
\* ---------------------------------------------------------------------------
\* The channel-visibility setters of the settings store, called directly
\* ---------------------------------------------------------------------------

\* `${c.groupId}-${c.fileId}-${c.channelId}`; the ids used here hold no "-",
\* so the key names the triple
CvKey(e) == <<e.groupId, "-", e.fileId, "-", e.channelId>>

\* settingsStore.initChannelVisibility: the entries are filtered against the
\* keys of the stored list only, then appended
initChannelVisibility(cv, entries) ==
  LET existingKeys == {CvKey(cv[k]) : k \in 1..Len(cv)}
      isNew(e) == CvKey(e) \notin existingKeys
      kept == SelectSeq(entries, isNew)
      newEntries == [k \in 1..Len(kept) |->
                       NewEntry(kept[k].groupId, kept[k].fileId, kept[k].channelId, TRUE)]
  IN  IF Len(newEntries) = 0 THEN cv ELSE cv \o newEntries

\* the triples the store is called with
CvTriples == {Instance("g1", 1, "a"), Instance("g2", 1, "a"), Instance(UNGROUPED, 1, "b")}

\* the argument lists of the batch operations: any list, repeats included
CvEntryLists == {<<>>} \cup {<<t>> : t \in CvTriples}
                  \cup {<<t, u>> : t \in CvTriples, u \in CvTriples}

CallSetChannelVisible(t, visible) ==
  /\ channelVisibility' =
       setChannelVisible(channelVisibility, t.groupId, t.fileId, t.channelId, visible)
  /\ UNCHANGED <<files, groups, treeSelection, storeActiveXAxis, hiddenInstances>>

CallSetMultipleChannelsVisible(entries, visible) ==
  /\ channelVisibility' = setMultipleChannelsVisible(channelVisibility, entries, visible)
  /\ UNCHANGED <<files, groups, treeSelection, storeActiveXAxis, hiddenInstances>>

CallSetChannelElementVisible(t, element, visible) ==
  /\ channelVisibility' =
       setChannelElementVisible(channelVisibility, t.groupId, t.fileId, t.channelId,
                                element, visible)
  /\ UNCHANGED <<files, groups, treeSelection, storeActiveXAxis, hiddenInstances>>

CallSetElementGroupVisible(t, elementGroupKey, visible) ==
  /\ channelVisibility' =
       setElementGroupVisible(channelVisibility, t.groupId, t.fileId, t.channelId,
                              elementGroupKey, visible)
  /\ UNCHANGED <<files, groups, treeSelection, storeActiveXAxis, hiddenInstances>>

CallInitChannelVisibility(entries) ==
  /\ Len(channelVisibility) + Len(entries) <= MaxCvLen
  /\ channelVisibility' = initChannelVisibility(channelVisibility, entries)
  /\ UNCHANGED <<files, groups, treeSelection, storeActiveXAxis, hiddenInstances>>


\* ---------------------------------------------------------------------------
\* The file store, called directly
\* ---------------------------------------------------------------------------

\* fileStore.clearFiles
clearFiles == files' = <<>>

\* the ids of the files the store is called with
StoreFileIds == {1, 2, 3, 4}

\* the arguments of addFiles: any list of files, repeats included
StoreFileLists ==
  {<<>>} \cup {<<ImportedFile(a)>> : a \in StoreFileIds}
         \cup {<<ImportedFile(a), ImportedFile(b)>> : a \in StoreFileIds, b \in StoreFileIds}

CallAddFiles(newFiles) ==
  /\ Len(files) + Len(newFiles) <= MaxStoreFiles
  /\ addFiles(newFiles)


VisIdle ==
  /\ groups = <<>>
  /\ treeSelection = <<>>
  /\ storeActiveXAxis = ""
  /\ channelVisibility = <<>>
  /\ hiddenInstances = {}

\* two files are loaded and two groups have been created from them
VisInit ==
  /\ files = <<VisFileA, VisFileB>>
  /\ \E l1 \in GroupChannelLists1, l2 \in GroupChannelLists2 :
       groups = << [id |-> "g1", channels |-> l1, isActive |-> TRUE],
                   [id |-> "g2", channels |-> l2, isActive |-> TRUE] >>
  /\ treeSelection = <<>>
  /\ storeActiveXAxis = ""
  /\ channelVisibility = <<>>
  /\ hiddenInstances = {}

\* ===========================================================================
\* The point-string decoder: parsePoints, parseCurves (renderer and worker)
\* and convertBatchArrays
\* ===========================================================================
\* JavaScript numbers: a finite value, NaN or +Infinity
JsNum(v) == [kind |-> "num", v |-> v]

JsNaN == [kind |-> "nan", v |-> 0]

JsInf == [kind |-> "inf", v |-> 0]

\* the unary plus of `+match[1]` on the attribute texts of the sample strings
ToNumber(text) ==
  CASE text = "1" -> JsNum(1)
    [] text = "-2" -> JsNum(-2)
    [] OTHER -> JsNaN

\* what the point string is made of: a substring x="1" y="-2", a substring
\* x="abc" y="1", or text the pattern does not match
PointPair(x, y) == [kind |-> "pair", x |-> x, y |-> y]

PointJunk == [kind |-> "junk", x |-> "", y |-> ""]

PointTokens == { PointPair("1", "-2"), PointPair("abc", "1"), PointJunk }

\* curve.points: absent, an object (no stop node), or a string ('' included)
PointsFields ==
  { [kind |-> "absent", tokens |-> <<>>], [kind |-> "object", tokens |-> <<>>] }
    \cup { [kind |-> "string", tokens |-> t] : t \in SeqsUpTo(PointTokens, MaxPoints + 1) }

\* noOfPoints in halves: -1, -0.5, 0, 0.5, ... MaxPoints + 1
DeclaredHalves == (-2)..(2 * MaxPoints + 2)

\* regex.exec in a loop: the matches of /x="([^"]+)"\s+y="([^"]+)"/g
RegexMatches(raw) == SelectSeq(raw, LAMBDA t : t.kind = "pair")

NoPoints(typed) == [threw |-> FALSE, typed |-> typed, x |-> <<>>, y |-> <<>>, count |-> 0]

RangeError == [threw |-> TRUE, typed |-> TRUE, x |-> <<>>, y |-> <<>>, count |-> 0]

\* the length of `new Float64Array(noOfPoints)`: the argument truncated to an
\* integer (ToIndex), a RangeError (-1 here) if that integer is negative
TypedArrayLength(halves) ==
  IF halves <= -2 THEN -1 ELSE IF halves < 0 THEN 0 ELSE halves \div 2

\* the length of `new Array(noOfPoints)`: a RangeError (-1 here) unless the
\* argument is a non-negative integer
ArrayLength(halves) ==
  IF halves < 0 \/ halves % 2 /= 0 THEN -1 ELSE halves \div 2

RECURSIVE PointsLoop(_, _, _, _, _)
\* while ((match = regex.exec(raw)) !== null && i < noOfPoints): i and the
\* values assigned to xArr[0..i-1], yArr[0..i-1]
PointsLoop(matches, halves, i, xs, ys) ==
  IF i < Len(matches) /\ 2 * i < halves
    THEN PointsLoop(matches, halves, i + 1,
                    Append(xs, ToNumber(matches[i + 1].x)),
                    Append(ys, ToNumber(matches[i + 1].y)))
    ELSE [i |-> i, x |-> xs, y |-> ys]

\* the guards at the head of parsePoints: TRUE if it returns the empty series
PointsGuard(halves, field) ==
  \/ halves = 0
  \/ field.kind = "absent"
  \/ field.kind = "string" /\ field.tokens = <<>>
  \/ field.kind /= "string"

\* xmlParser.ts parsePoints: Float64Arrays; an assignment past the end of a
\* typed array stores nothing, and slice(0, i) is at most the array
parsePoints(halves, field) ==
  IF PointsGuard(halves, field) THEN NoPoints(TRUE)
  ELSE IF TypedArrayLength(halves) < 0 THEN RangeError
  ELSE LET loop == PointsLoop(RegexMatches(field.tokens), halves, 0, <<>>, <<>>)
           kept == Min2(loop.i, TypedArrayLength(halves))
       IN  [threw |-> FALSE, typed |-> TRUE,
            x |-> SubSeq(loop.x, 1, kept), y |-> SubSeq(loop.y, 1, kept),
            count |-> loop.i]

\* parse-worker parsePoints: plain arrays, `xArr.length = i`
parsePointsWorker(halves, field) ==
  IF PointsGuard(halves, field) THEN NoPoints(FALSE)
  ELSE IF ArrayLength(halves) < 0 THEN RangeError
  ELSE LET loop == PointsLoop(RegexMatches(field.tokens), halves, 0, <<>>, <<>>)
       IN  [threw |-> FALSE, typed |-> FALSE, x |-> loop.x, y |-> loop.y, count |-> loop.i]

\* parseCurves: pointsX: points.x, pointsY: points.y, noOfPoints: points.count
CurveChannel(points) ==
  [pointsX |-> points.x, pointsY |-> points.y, noOfPoints |-> points.count,
   typed |-> points.typed]

\* fileStore convertBatchArrays on one curve: plain arrays become Float64Arrays
convertBatchArrays(curve) == [curve EXCEPT !.typed = TRUE]

NoChannel == CurveChannel(NoPoints(TRUE))

\* parseXmlString in the renderer (browser import, Electron fallback)
ParseInRenderer ==
  /\ ptPc = "call"
  /\ ptParser = "renderer"
  /\ LET points == parsePoints(ptNoOfPoints, ptPoints)
     IN  IF points.threw
           THEN ptPc' = "threw" /\ UNCHANGED ptChannel
           ELSE ptPc' = "held" /\ ptChannel' = CurveChannel(points)
  /\ UNCHANGED <<ptNoOfPoints, ptPoints, ptParser>>

\* parseXmlString in a worker thread; the result travels to the renderer
ParseInWorker ==
  /\ ptPc = "call"
  /\ ptParser = "worker"
  /\ LET points == parsePointsWorker(ptNoOfPoints, ptPoints)
     IN  IF points.threw
           THEN ptPc' = "threw" /\ UNCHANGED ptChannel
           ELSE ptPc' = "sent" /\ ptChannel' = CurveChannel(points)
  /\ UNCHANGED <<ptNoOfPoints, ptPoints, ptParser>>

\* the onParseBatch listener: convertBatchArrays, then the store
ConvertOnArrival ==
  /\ ptPc = "sent"
  /\ ptChannel' = convertBatchArrays(ptChannel)
  /\ ptPc' = "held"
  /\ UNCHANGED <<ptNoOfPoints, ptPoints, ptParser>>

PtIdle ==
  /\ ptNoOfPoints = 0
  /\ ptPoints = [kind |-> "absent", tokens |-> <<>>]
  /\ ptParser = "renderer"
  /\ ptChannel = NoChannel
  /\ ptPc = "idle"

PtInit ==
  /\ ptNoOfPoints \in DeclaredHalves
  /\ ptPoints \in PointsFields
  /\ ptParser \in {"renderer", "worker"}
  /\ ptChannel = NoChannel
  /\ ptPc = "call"

\* ===========================================================================
\* ValueDetailModal: computeHistogramBins
\* ===========================================================================
\* handleBinCountChange accepts 2..100
MIN_BINS == 2

\* the numeric values of a row: parseFloat results that are not NaN
HistNumbers == { JsNum(0), JsNum(1), JsNum(3), JsInf }

JsLess(a, b) ==
  IF a.kind = "inf" THEN FALSE ELSE IF b.kind = "inf" THEN TRUE ELSE a.v < b.v

RECURSIVE MathMin(_)
MathMin(values) ==
  IF Len(values) = 1 THEN values[1]
  ELSE LET m == MathMin(Tail(values))
       IN  IF JsLess(values[1], m) THEN values[1] ELSE m

RECURSIVE MathMax(_)
MathMax(values) ==
  IF Len(values) = 1 THEN values[1]
  ELSE LET m == MathMax(Tail(values))
       IN  IF JsLess(m, values[1]) THEN values[1] ELSE m

\* Math.min(Math.floor((v - min) / binWidth), binCount - 1) with binWidth =
\* (max - min) / binCount, for min < max (so min is finite); -1 stands for
\* NaN: Infinity / Infinity, and Math.min of NaN
BinIndex(v, min, max, binCount) ==
  IF max.kind = "inf"
    THEN IF v.kind = "inf" THEN -1 ELSE 0
    ELSE Min2(FloorDiv((v.v - min.v) * binCount, max.v - min.v), binCount - 1)

EmptyBin == [count |-> 0, indices |-> <<>>]

RECURSIVE BinLoop(_, _, _, _, _, _)
\* for (let vi = 0; vi < values.length; vi++): bins[idx].count++ and
\* bins[idx].indices.push(vi); bins[NaN] is undefined and the access throws
BinLoop(values, min, max, binCount, vi, bins) ==
  IF vi >= Len(values) THEN [threw |-> FALSE, bins |-> bins]
  ELSE LET idx == BinIndex(values[vi + 1], min, max, binCount)
       IN  IF idx < 0 THEN [threw |-> TRUE, bins |-> <<>>]
           ELSE BinLoop(values, min, max, binCount, vi + 1,
                        [bins EXCEPT ![idx + 1] =
                           [count |-> @.count + 1, indices |-> Append(@.indices, vi)]])

\* computeHistogramBins(values, binCount): the count and the indices of every
\* bin (the labels are left out)
computeHistogramBins(values, binCount) ==
  IF Len(values) = 0 THEN [threw |-> FALSE, bins |-> <<>>]
  ELSE LET min == MathMin(values)
           max == MathMax(values)
       IN  IF min = max
             THEN [threw |-> FALSE,
                   bins |-> << [count |-> Len(values), indices |-> Iota(Len(values))] >>]
             ELSE BinLoop(values, min, max, binCount, 0, [b \in 1..binCount |-> EmptyBin])

HistCall ==
  /\ histPc = "call"
  /\ histOut' = computeHistogramBins(histValues, histBinCount)
  /\ histPc' = "done"
  /\ UNCHANGED <<histValues, histBinCount>>

HistIdle ==
  /\ histValues = <<>>
  /\ histBinCount = MIN_BINS
  /\ histOut = [threw |-> FALSE, bins |-> <<>>]
  /\ histPc = "idle"

HistInit ==
  /\ histValues \in SeqsUpTo(HistNumbers, MaxHistN)
  /\ histBinCount \in MIN_BINS..MaxBins
  /\ histOut = [threw |-> FALSE, bins |-> <<>>]
  /\ histPc = "call"

\* ===========================================================================
\* Set/actual value rows: mapValueStatus, collectDescriptions (ValueTables),
\* collectAllValueDescriptions and dataPoints (ValueDetailModal)
\* ===========================================================================
DEACTIVATED == 256

mapValueStatus(rawStatus) ==
  CASE rawStatus = 0 -> 501
    [] rawStatus = 1 -> DEACTIVATED
    [] rawStatus = 2 -> 502
    [] OTHER -> rawStatus

\* <setValue>/<actualValue> elements as the XML holds them
XmlValue(rowNumber, status, description, value) ==
  [rowNumber |-> rowNumber, status |-> status, description |-> description,
   value |-> value]

XmlValues ==
  { XmlValue(1, 1, "a", "5"), XmlValue(1, 501, "b", "7"),
    XmlValue(2, 256, "c", "9"), XmlValue(2, 0, "d", "x") }

\* parseFloat on the value texts of XmlValues
parseFloat(text) ==
  CASE text = "5" -> JsNum(5)
    [] text = "7" -> JsNum(7)
    [] text = "9" -> JsNum(9)
    [] OTHER -> JsNaN

\* parseSetValues / parseActualValues: status: mapValueStatus(num(sv.status))
parseValues(values) ==
  [k \in 1..Len(values) |-> [values[k] EXCEPT !.status = mapValueStatus(@)]]

\* parseXmlString as far as the value rows go
parseValueFile(xml) ==
  [id |-> xml.id, setValues |-> parseValues(xml.setValues),
   actualValues |-> parseValues(xml.actualValues)]

ValuesOf(file, type) == IF type = "set" THEN file.setValues ELSE file.actualValues

\* Map.set: the entry of the key is replaced
MapSet(m, key, v) == {e \in m : e[1] /= key} \cup {<<key, v>>}

RECURSIVE DescriptionsLoop(_, _, _, _, _)
\* for (const file of files) for (const v of values): skip status 256,
\* descriptions.set(v.rowNumber, v.description)
DescriptionsLoop(fs, type, f, k, descriptions) ==
  IF f > Len(fs) THEN descriptions
  ELSE IF k > Len(ValuesOf(fs[f], type))
    THEN DescriptionsLoop(fs, type, f + 1, 1, descriptions)
  ELSE LET v == ValuesOf(fs[f], type)[k]
       IN  IF v.status = DEACTIVATED
             THEN DescriptionsLoop(fs, type, f, k + 1, descriptions)
             ELSE DescriptionsLoop(fs, type, f, k + 1,
                                   MapSet(descriptions, v.rowNumber, v.description))

RECURSIVE SortByRow(_)
\* Array.from(descriptions.entries()).sort((a, b) => a[0] - b[0])
SortByRow(m) ==
  IF m = {} THEN <<>>
  ELSE LET first == CHOOSE e \in m : \A o \in m : e[1] <= o[1]
       IN  <<first>> \o SortByRow(m \ {first})

\* the variant that does not skip deactivated rows
collectDescriptions_keepDeactivated(fs, type) ==
  SortByRow(DescriptionsLoop(
    [f \in 1..Len(fs) |->
       [fs[f] EXCEPT !.setValues = [k \in 1..Len(@) |-> [@[k] EXCEPT !.status = 501]],
                     !.actualValues = [k \in 1..Len(@) |-> [@[k] EXCEPT !.status = 501]]]],
    type, 1, 1, {}))

collectDescriptions(fs, type) == SortByRow(DescriptionsLoop(fs, type, 1, 1, {}))

NoValue == XmlValue(0, 0, "", "")

RECURSIVE Find(_, _, _)
\* values.find((v) => v.rowNumber === rowNumber && v.status !== 256)
Find(values, rowNumber, k) ==
  IF k > Len(values) THEN NoValue
  ELSE IF values[k].rowNumber = rowNumber /\ values[k].status /= DEACTIVATED
    THEN values[k]
  ELSE Find(values, rowNumber, k + 1)

\* dataPoints: one per file, the value found and its parseFloat
dataPoints(fs, type, rowNumber) ==
  [f \in 1..Len(fs) |->
     LET val == Find(ValuesOf(fs[f], type), rowNumber, 1)
     IN  [file |-> fs[f].id, value |-> val,
          numericValue |-> IF val = NoValue THEN JsNaN ELSE parseFloat(val.value)]]

RECURSIVE SelectNumeric(_, _)
\* numericValues: dataPoints.filter((d) => !isNaN(d.numericValue)).map(...)
SelectNumeric(points, k) ==
  IF k > Len(points) THEN <<>>
  ELSE (IF points[k].numericValue = JsNaN THEN <<>> ELSE <<points[k].numericValue>>)
         \o SelectNumeric(points, k + 1)

numericValues(points) == SelectNumeric(points, 1)

RECURSIVE AllDescriptionsLoop(_, _, _, _, _, _)
\* collectAllValueDescriptions: per file the set values, then the actual
\* values; deactivated rows skipped, a key is listed once
AllDescriptionsLoop(fs, f, type, k, seen, result) ==
  IF f > Len(fs) THEN result
  ELSE IF k > Len(ValuesOf(fs[f], type))
    THEN IF type = "set" THEN AllDescriptionsLoop(fs, f, "actual", 1, seen, result)
         ELSE AllDescriptionsLoop(fs, f + 1, "set", 1, seen, result)
  ELSE LET v == ValuesOf(fs[f], type)[k]
           key == <<type, v.rowNumber, v.description>>
       IN  IF v.status = DEACTIVATED \/ key \in seen
             THEN AllDescriptionsLoop(fs, f, type, k + 1, seen, result)
             ELSE AllDescriptionsLoop(fs, f, type, k + 1, seen \cup {key},
                                      Append(result, key))

collectAllValueDescriptions(fs) == AllDescriptionsLoop(fs, 1, "set", 1, {}, <<>>)

\* the value rows of the files, cut into the lists of the files in order:
\* cut[j] is the list that row j belongs to, lists 2f-1 (set) and 2f (actual)
RECURSIVE RowsOfList(_, _, _, _)
RowsOfList(rows, cut, l, j) ==
  IF j > Len(rows) THEN <<>>
  ELSE (IF cut[j] = l THEN <<rows[j]>> ELSE <<>>) \o RowsOfList(rows, cut, l, j + 1)

XmlValueFiles(n) ==
  { [f \in 1..n |-> [id |-> f, setValues |-> RowsOfList(rows, cut, 2 * f - 1, 1),
                     actualValues |-> RowsOfList(rows, cut, 2 * f, 1)]] :
      <<rows, cut>> \in
        UNION { { <<r, c>> : c \in { c \in [1..Len(r) -> 1..(2 * n)] :
                                       \A j \in 1..(Len(r) - 1) : c[j] <= c[j + 1] } } :
                r \in SeqsUpTo(XmlValues, MaxValueRows) } }

\* parseXmlString of every file, before the tables render
ParseValueFiles ==
  /\ valPc = "xml"
  /\ valFiles' = [f \in 1..Len(valFiles) |-> parseValueFile(valFiles[f])]
  /\ valPc' = "parsed"
  /\ UNCHANGED <<valType, valRow, valDescs, valPoints, valAllDescs>>

\* ValueTables renders: setDescs and actDescs
RenderValueTables ==
  /\ valPc = "parsed"
  /\ valDescs' = [set |-> collectDescriptions(valFiles, "set"),
                  actual |-> collectDescriptions(valFiles, "actual")]
  /\ valPc' = "tables"
  /\ UNCHANGED <<valFiles, valType, valRow, valPoints, valAllDescs>>

\* a row of a table is opened in the ValueDetailModal
OpenValueDetail(type, rowNumber) ==
  /\ valPc = "tables"
  /\ \E k \in 1..Len(valDescs[type]) : valDescs[type][k][1] = rowNumber
  /\ valType' = type
  /\ valRow' = rowNumber
  /\ valPoints' = dataPoints(valFiles, type, rowNumber)
  /\ valAllDescs' = collectAllValueDescriptions(valFiles)
  /\ valPc' = "detail"
  /\ UNCHANGED <<valFiles, valDescs>>

ValIdle ==
  /\ valFiles = <<>>
  /\ valType = "set"
  /\ valRow = 0
  /\ valDescs = [set |-> <<>>, actual |-> <<>>]
  /\ valPoints = <<>>
  /\ valAllDescs = <<>>
  /\ valPc = "idle"

ValInit ==
  /\ \E n \in 1..MaxValueFiles : valFiles \in XmlValueFiles(n)
  /\ valType = "set"
  /\ valRow = 0
  /\ valDescs = [set |-> <<>>, actual |-> <<>>]
  /\ valPoints = <<>>
  /\ valAllDescs = <<>>
  /\ valPc = "xml"


\* ===========================================================================
\* Zoom history: pushZoom, undoZoom, resetZoom (settingsStore) and
\* handleDataZoom, handleZoomUndo, handleZoomReset (CurvePlot)
\* ===========================================================================
ZoomLevel(xStart, xEnd) == [xStart |-> xStart, xEnd |-> xEnd]

FullZoom == ZoomLevel(0, 100)

\* the ranges the user zooms to
UserZoomLevels == { ZoomLevel(10, 90), ZoomLevel(20, 80), ZoomLevel(30, 70) }

\* settingsStore.pushZoom(level): the forward history is trimmed
pushZoom(level) ==
  LET trimmed == SubSeq(zoomHistory, 1, zoomIndex + 1)
  IN  /\ zoomHistory' = Append(trimmed, level)
      /\ zoomIndex' = Len(trimmed)

\* chart.on('dataZoom', ...): handleDataZoom restarts the debounce timer.
\* The chart emits the event for the user's zooming and for dispatchAction.
handleDataZoom == zoomTimerRef' = TRUE

\* the user zooms the chart (slider, wheel, box zoom)
UserZoom(level) ==
  /\ Len(zoomHistory) < MaxZoomLevels
  /\ level /= chartZoom
  /\ chartZoom' = level
  /\ handleDataZoom
  /\ undoBase' = <<>>
  /\ undoCount' = 0
  /\ UNCHANGED <<zoomHistory, zoomIndex>>

\* the debounce timer fires 300 ms after the last event: the level the chart
\* shows is pushed
ZoomTimerFires ==
  /\ zoomTimerRef
  /\ pushZoom(chartZoom)
  /\ zoomTimerRef' = FALSE
  /\ UNCHANGED <<chartZoom, undoBase, undoCount>>

\* the undo button: undoZoom() and, if it returns a level, dispatchAction of
\* a dataZoom with it
handleZoomUndo ==
  /\ IF zoomIndex <= 0
       THEN UNCHANGED <<zoomIndex, chartZoom, zoomTimerRef>>
       ELSE /\ zoomIndex' = zoomIndex - 1
            /\ chartZoom' = zoomHistory[zoomIndex]
            /\ handleDataZoom
  /\ undoBase' = IF undoCount = 0 THEN SubSeq(zoomHistory, 1, zoomIndex + 1) ELSE undoBase
  /\ undoCount' = undoCount + (IF undoCount < MaxZoomLevels THEN 1 ELSE 0)
  /\ UNCHANGED zoomHistory

\* the reset button: resetZoom() and dispatchAction of the full range
handleZoomReset ==
  /\ zoomHistory' = <<>>
  /\ zoomIndex' = -1
  /\ chartZoom' = FullZoom
  /\ handleDataZoom
  /\ undoBase' = <<>>
  /\ undoCount' = 0

ZoomIdle ==
  /\ zoomHistory = <<>>
  /\ zoomIndex = -1
  /\ chartZoom = FullZoom
  /\ zoomTimerRef = FALSE
  /\ undoBase = <<>>
  /\ undoCount = 0


LttbInit ==
  /\ lttbPc = "call"
  /\ lttbOut = <<>>
  /\ \E n \in 0..MaxLttbN :
       /\ lttbX \in [1..n -> Coords]
       /\ lttbY \in [1..n -> Coords]
  /\ lttbThreshold \in 0..(MaxLttbN + 1)

LttbIdle ==
  /\ lttbPc = "idle"
  /\ lttbOut = <<>>
  /\ lttbX = <<>>
  /\ lttbY = <<>>
  /\ lttbThreshold = 0

\* The call lttbDownsample(x, y, threshold)
LttbCall ==
  /\ lttbPc = "call"
  /\ lttbOut' = lttbDownsample(lttbX, lttbY, lttbThreshold)
  /\ lttbPc' = "done"
  /\ UNCHANGED <<lttbX, lttbY, lttbThreshold>>

FilesIdle == files = <<>>

vars == <<zoomVars, valVars, lttbVars, ptVars, histVars, calcVars, files, syncStoreVars, importVars, visVars>>

LttbNext == LttbCall /\ UNCHANGED <<zoomVars, valVars, ptVars, histVars, calcVars, files, syncStoreVars, importVars, visVars>>

InitLttb == LttbInit /\ ZoomIdle /\ ValIdle /\ PtIdle /\ HistIdle /\ CalcIdle /\ FilesIdle /\ SyncStoreInit /\ ImportIdle /\ VisIdle

SpecLttb == InitLttb /\ [][LttbNext]_vars

SyncCalcNext ==
  \/ SyncCalcCall /\ UNCHANGED <<zoomVars, valVars, lttbVars, ptVars, histVars, files, syncStoreVars, importVars, visVars>>
  \/ CalcNextFile /\ UNCHANGED <<zoomVars, valVars, lttbVars, ptVars, histVars, files, syncStoreVars, importVars, visVars>>
  \/ CalcReturn /\ UNCHANGED <<zoomVars, valVars, lttbVars, ptVars, histVars, files, syncStoreVars, importVars, visVars>>

InitSyncCalc == SyncCalcInit /\ ZoomIdle /\ ValIdle /\ LttbIdle /\ PtIdle /\ HistIdle /\ FilesIdle /\ SyncStoreInit /\ ImportIdle /\ VisIdle

SpecSyncCalc == InitSyncCalc /\ [][SyncCalcNext]_vars

SyncPanelNext ==
  \/ (\E mode \in SyncModes \cup {"off"} : handleModeChange(mode)) /\ UNCHANGED <<zoomVars, valVars, lttbVars, ptVars, histVars, importVars, visVars>>
  \/ (\E yAxis \in SyncMasters : handleMasterChange(yAxis)) /\ UNCHANGED <<zoomVars, valVars, lttbVars, ptVars, histVars, importVars, visVars>>
  \/ (\E val \in SyncThresholds : handleThresholdChange(val)) /\ UNCHANGED <<zoomVars, valVars, lttbVars, ptVars, histVars, importVars, visVars>>
  \/ handleApply /\ UNCHANGED <<zoomVars, valVars, lttbVars, ptVars, histVars, importVars, visVars>>
  \/ PanelCalcNextFile /\ UNCHANGED <<zoomVars, valVars, lttbVars, ptVars, histVars, importVars, visVars>>
  \/ handleApplyContinue /\ UNCHANGED <<zoomVars, valVars, lttbVars, ptVars, histVars, importVars, visVars>>
  \/ handleReset /\ UNCHANGED <<zoomVars, valVars, lttbVars, ptVars, histVars, importVars, visVars>>

InitSyncPanel == SyncPanelInit /\ ZoomIdle /\ ValIdle /\ LttbIdle /\ PtIdle /\ HistIdle /\ ImportIdle /\ VisIdle

SpecSyncPanel == InitSyncPanel /\ [][SyncPanelNext]_vars

ImportNext ==
  \/ (\E s \in ImportIds : imp[s].pc = "ready" /\
        \E n \in ImportSizes : \E fail \in FailPatterns(n) : handleFilesSelected(s, n, fail)) /\ UNCHANGED <<zoomVars, valVars, lttbVars, ptVars, histVars, calcVars, syncStoreVars, visVars>>
  \/ (\E s \in ImportIds : imp[s].pc = "ready" /\
        \E n \in ImportSizes : \E fail \in FailPatterns(n) : handleDrop(s, n, fail)) /\ UNCHANGED <<zoomVars, valVars, lttbVars, ptVars, histVars, calcVars, syncStoreVars, visVars>>
  \/ (\E s \in ImportIds : processFilesBatchDone(s))
        /\ UNCHANGED <<zoomVars, valVars, lttbVars, ptVars, histVars, calcVars, syncStoreVars, visVars>>
  \/ (\E s \in ImportIds : processFilesNext(s))
        /\ UNCHANGED <<zoomVars, valVars, lttbVars, ptVars, histVars, calcVars, syncStoreVars, visVars>>
  \/ (\E s \in ImportIds : DroppedPathsExpanded(s))
        /\ UNCHANGED <<zoomVars, valVars, lttbVars, ptVars, histVars, calcVars, syncStoreVars, visVars>>
  \/ (\E s \in ImportIds : FallbackBatchRead(s))
        /\ UNCHANGED <<zoomVars, valVars, lttbVars, ptVars, histVars, calcVars, syncStoreVars, visVars>>
  \/ (\E s \in ImportIds : FallbackNext(s))
        /\ UNCHANGED <<zoomVars, valVars, lttbVars, ptVars, histVars, calcVars, syncStoreVars, visVars>>
  \/ handleCancelImport /\ UNCHANGED <<zoomVars, valVars, lttbVars, ptVars, histVars, calcVars, syncStoreVars, visVars>>
  \/ RendererOnParseBatch /\ UNCHANGED <<zoomVars, valVars, lttbVars, ptVars, histVars, calcVars, syncStoreVars, visVars>>
  \/ RendererOnInvokeReply /\ UNCHANGED <<zoomVars, valVars, lttbVars, ptVars, histVars, calcVars, syncStoreVars, visVars>>
  \/ MainParseFilesParallel /\ UNCHANGED <<zoomVars, valVars, lttbVars, ptVars, histVars, calcVars, syncStoreVars, visVars>>
  \/ (\E w \in 1..PoolSize : WorkerParse(w))
        /\ UNCHANGED <<zoomVars, valVars, lttbVars, ptVars, histVars, calcVars, syncStoreVars, visVars>>
  \/ (\E w \in 1..PoolSize : MainOnParseResult(w))
        /\ UNCHANGED <<zoomVars, valVars, lttbVars, ptVars, histVars, calcVars, syncStoreVars, visVars>>

InitImport == ImportInit /\ ZoomIdle /\ ValIdle /\ LttbIdle /\ PtIdle /\ HistIdle /\ CalcIdle /\ SyncStoreInit /\ VisIdle

SpecImport == InitImport /\ [][ImportNext]_vars

CvNext ==
  \/ (\E t \in CvTriples, visible \in BOOLEAN : CallSetChannelVisible(t, visible))
        /\ UNCHANGED <<zoomVars, valVars, lttbVars, ptVars, histVars, calcVars, syncStoreVars, importVars>>
  \/ (\E entries \in CvEntryLists, visible \in BOOLEAN :
        CallSetMultipleChannelsVisible(entries, visible))
        /\ UNCHANGED <<zoomVars, valVars, lttbVars, ptVars, histVars, calcVars, syncStoreVars, importVars>>
  \/ (\E t \in CvTriples, visible \in BOOLEAN : CallSetChannelElementVisible(t, "lines", visible))
        /\ UNCHANGED <<zoomVars, valVars, lttbVars, ptVars, histVars, calcVars, syncStoreVars, importVars>>
  \/ (\E t \in CvTriples, visible \in BOOLEAN : CallSetElementGroupVisible(t, "lg1", visible))
        /\ UNCHANGED <<zoomVars, valVars, lttbVars, ptVars, histVars, calcVars, syncStoreVars, importVars>>
  \/ (\E entries \in CvEntryLists : CallInitChannelVisibility(entries))
        /\ UNCHANGED <<zoomVars, valVars, lttbVars, ptVars, histVars, calcVars, syncStoreVars, importVars>>

InitCv == VisInit /\ ZoomIdle /\ ValIdle /\ LttbIdle /\ PtIdle /\ HistIdle /\ CalcIdle /\ SyncStoreInit /\ ImportIdle

SpecCv == InitCv /\ [][CvNext]_vars


StoreNext ==
  \/ (\E newFiles \in StoreFileLists : CallAddFiles(newFiles))
        /\ UNCHANGED <<zoomVars, valVars, lttbVars, ptVars, histVars, calcVars, syncStoreVars, importVars, visVars>>
  \/ (\E fileId \in StoreFileIds : removeFile(fileId))
        /\ UNCHANGED <<zoomVars, valVars, lttbVars, ptVars, histVars, calcVars, syncStoreVars, importVars>>
  \/ clearFiles
        /\ UNCHANGED <<zoomVars, valVars, lttbVars, ptVars, histVars, calcVars, syncStoreVars, importVars, visVars>>

InitStore == FilesIdle /\ VisIdle /\ ZoomIdle /\ ValIdle /\ LttbIdle /\ PtIdle /\ HistIdle /\ CalcIdle /\ SyncStoreInit /\ ImportIdle

SpecStore == InitStore /\ [][StoreNext]_vars


VisNext ==
  \/ AutoSelectXAxis /\ UNCHANGED <<zoomVars, valVars, lttbVars, ptVars, histVars, calcVars, syncStoreVars, importVars>>
  \/ (\E g \in {"g1", "g2"} : toggleGroupActive(g))
        /\ UNCHANGED <<zoomVars, valVars, lttbVars, ptVars, histVars, calcVars, syncStoreVars, importVars>>
  \/ (\E sel \in TreeSelections : setTreeSelection(sel))
        /\ UNCHANGED <<zoomVars, valVars, lttbVars, ptVars, histVars, calcVars, syncStoreVars, importVars>>
  \/ (\E entry \in LegendEntrySet : toggleGroupVisibility(entry))
        /\ UNCHANGED <<zoomVars, valVars, lttbVars, ptVars, histVars, calcVars, syncStoreVars, importVars>>
  \/ (\E entry \in LegendEntrySet : \E t \in InstanceSet(entry.instances) :
        toggleFileVisibility(entry, t.fileId))
        /\ UNCHANGED <<zoomVars, valVars, lttbVars, ptVars, histVars, calcVars, syncStoreVars, importVars>>
  \/ (\E t \in LegendRows : LegendChannelToggle(t))
        /\ UNCHANGED <<zoomVars, valVars, lttbVars, ptVars, histVars, calcVars, syncStoreVars, importVars>>
  \/ (\E description \in {"force", "P"} : toggleDescription(description))
        /\ UNCHANGED <<zoomVars, valVars, lttbVars, ptVars, histVars, calcVars, syncStoreVars, importVars>>
  \/ (\E t \in LegendRows : LegendElementToggle(t))
        /\ UNCHANGED <<zoomVars, valVars, lttbVars, ptVars, histVars, calcVars, syncStoreVars, importVars>>
  \/ (\E t \in LegendRows : LegendElementGroupToggle(t))
        /\ UNCHANGED <<zoomVars, valVars, lttbVars, ptVars, histVars, calcVars, syncStoreVars, importVars>>

InitVis == VisInit /\ ZoomIdle /\ ValIdle /\ LttbIdle /\ PtIdle /\ HistIdle /\ CalcIdle /\ SyncStoreInit /\ ImportIdle

SpecVis == InitVis /\ [][VisNext]_vars

PoolNext ==
  \/ (\E s \in PoolCallIds : \E n \in PoolDropSizes :
        \E fail \in PoolDropFailures : handleDrop(s, n, fail))
        /\ UNCHANGED <<zoomVars, valVars, lttbVars, ptVars, histVars, calcVars, syncStoreVars, visVars>>
  \/ (\E s \in PoolCallIds : DroppedPathsExpanded(s))
        /\ UNCHANGED <<zoomVars, valVars, lttbVars, ptVars, histVars, calcVars, syncStoreVars, visVars>>
  \/ MainParseFilesParallel /\ UNCHANGED <<zoomVars, valVars, lttbVars, ptVars, histVars, calcVars, syncStoreVars, visVars>>
  \/ (\E w \in 1..PoolSize : WorkerParse(w))
        /\ UNCHANGED <<zoomVars, valVars, lttbVars, ptVars, histVars, calcVars, syncStoreVars, visVars>>
  \/ (\E w \in 1..PoolSize : MainOnParseResult(w))
        /\ UNCHANGED <<zoomVars, valVars, lttbVars, ptVars, histVars, calcVars, syncStoreVars, visVars>>
  \/ RendererOnParseBatch /\ UNCHANGED <<zoomVars, valVars, lttbVars, ptVars, histVars, calcVars, syncStoreVars, visVars>>
  \/ RendererOnInvokeReply /\ UNCHANGED <<zoomVars, valVars, lttbVars, ptVars, histVars, calcVars, syncStoreVars, visVars>>

InitPool == PoolInit /\ ZoomIdle /\ ValIdle /\ LttbIdle /\ PtIdle /\ HistIdle /\ CalcIdle /\ SyncStoreInit /\ VisIdle

SpecPool == InitPool /\ [][PoolNext]_vars

\* what the event loops of the renderer, the main process and the workers do
\* on their own once a folder is dropped
PoolProgress ==
  /\ \/ (\E s \in PoolCallIds : DroppedPathsExpanded(s))
     \/ MainParseFilesParallel
     \/ (\E w \in 1..PoolSize : WorkerParse(w))
     \/ (\E w \in 1..PoolSize : MainOnParseResult(w))
     \/ RendererOnParseBatch
     \/ RendererOnInvokeReply
  /\ UNCHANGED <<zoomVars, valVars, lttbVars, ptVars, histVars, calcVars, syncStoreVars, visVars>>

PoolErrNext ==
  \/ PoolNext
  \/ (\E w \in 1..PoolSize : MainOnWorkerError(w))
        /\ UNCHANGED <<zoomVars, valVars, lttbVars, ptVars, histVars, calcVars, syncStoreVars, visVars>>

\* every posted message and every queued event is handled in the end; a
\* worker's exception may or may not happen
SpecPoolErr == InitPool /\ [][PoolErrNext]_vars /\ WF_vars(PoolProgress)


LoadNext ==
  \/ (\E s \in PoolCallIds : \E n \in LoadSizes : handleFilesSelected(s, n, {}))
        /\ UNCHANGED <<zoomVars, valVars, lttbVars, ptVars, histVars, calcVars, syncStoreVars, visVars>>
  \/ (\E s \in PoolCallIds : \E n \in LoadSizes : handleDrop(s, n, {}))
        /\ UNCHANGED <<zoomVars, valVars, lttbVars, ptVars, histVars, calcVars, syncStoreVars, visVars>>
  \/ (\E s \in PoolCallIds : \E n \in LoadSizes : handleGlobalDrop(s, n, {}))
        /\ UNCHANGED <<zoomVars, valVars, lttbVars, ptVars, histVars, calcVars, syncStoreVars, visVars>>
  \/ (\E s \in PoolCallIds : processFilesBatchDone(s))
        /\ UNCHANGED <<zoomVars, valVars, lttbVars, ptVars, histVars, calcVars, syncStoreVars, visVars>>
  \/ (\E s \in PoolCallIds : processFilesNext(s))
        /\ UNCHANGED <<zoomVars, valVars, lttbVars, ptVars, histVars, calcVars, syncStoreVars, visVars>>
  \/ (\E s \in PoolCallIds : DroppedPathsExpanded(s))
        /\ UNCHANGED <<zoomVars, valVars, lttbVars, ptVars, histVars, calcVars, syncStoreVars, visVars>>
  \/ (\E s \in PoolCallIds : FallbackBatchRead(s))
        /\ UNCHANGED <<zoomVars, valVars, lttbVars, ptVars, histVars, calcVars, syncStoreVars, visVars>>
  \/ (\E s \in PoolCallIds : FallbackNext(s))
        /\ UNCHANGED <<zoomVars, valVars, lttbVars, ptVars, histVars, calcVars, syncStoreVars, visVars>>
  \/ handleCancelImport
        /\ UNCHANGED <<zoomVars, valVars, lttbVars, ptVars, histVars, calcVars, syncStoreVars, visVars>>
  \/ (\E kind \in {"clear", "safety"} : LoadingTimerFires(kind))
        /\ UNCHANGED <<zoomVars, valVars, lttbVars, ptVars, histVars, calcVars, syncStoreVars, visVars>>
  \/ RendererOnParseBatch
        /\ UNCHANGED <<zoomVars, valVars, lttbVars, ptVars, histVars, calcVars, syncStoreVars, visVars>>
  \/ RendererOnInvokeReply
        /\ UNCHANGED <<zoomVars, valVars, lttbVars, ptVars, histVars, calcVars, syncStoreVars, visVars>>
  \/ MainParseFilesParallel
        /\ UNCHANGED <<zoomVars, valVars, lttbVars, ptVars, histVars, calcVars, syncStoreVars, visVars>>
  \/ (\E w \in 1..PoolSize : WorkerParse(w))
        /\ UNCHANGED <<zoomVars, valVars, lttbVars, ptVars, histVars, calcVars, syncStoreVars, visVars>>
  \/ (\E w \in 1..PoolSize : MainOnParseResult(w))
        /\ UNCHANGED <<zoomVars, valVars, lttbVars, ptVars, histVars, calcVars, syncStoreVars, visVars>>

InitLoad == LoadInit /\ ZoomIdle /\ ValIdle /\ LttbIdle /\ PtIdle /\ HistIdle /\ CalcIdle /\ SyncStoreInit /\ VisIdle

SpecLoad == InitLoad /\ [][LoadNext]_vars


ZoomNext ==
  \/ (\E level \in UserZoomLevels : UserZoom(level))
        /\ UNCHANGED <<valVars, lttbVars, ptVars, histVars, calcVars, files, syncStoreVars, importVars, visVars>>
  \/ ZoomTimerFires
        /\ UNCHANGED <<valVars, lttbVars, ptVars, histVars, calcVars, files, syncStoreVars, importVars, visVars>>
  \/ handleZoomUndo
        /\ UNCHANGED <<valVars, lttbVars, ptVars, histVars, calcVars, files, syncStoreVars, importVars, visVars>>
  \/ handleZoomReset
        /\ UNCHANGED <<valVars, lttbVars, ptVars, histVars, calcVars, files, syncStoreVars, importVars, visVars>>

InitZoom ==
  ZoomIdle /\ ValIdle /\ LttbIdle /\ PtIdle /\ HistIdle /\ CalcIdle /\ FilesIdle /\ SyncStoreInit /\ ImportIdle /\ VisIdle

SpecZoom == InitZoom /\ [][ZoomNext]_vars



PointsNext ==
  \/ ParseInRenderer /\ UNCHANGED <<zoomVars, valVars, lttbVars, histVars, calcVars, files, syncStoreVars, importVars, visVars>>
  \/ ParseInWorker /\ UNCHANGED <<zoomVars, valVars, lttbVars, histVars, calcVars, files, syncStoreVars, importVars, visVars>>
  \/ ConvertOnArrival /\ UNCHANGED <<zoomVars, valVars, lttbVars, histVars, calcVars, files, syncStoreVars, importVars, visVars>>

InitPoints ==
  PtInit /\ ZoomIdle /\ ValIdle /\ LttbIdle /\ HistIdle /\ CalcIdle /\ FilesIdle /\ SyncStoreInit /\ ImportIdle /\ VisIdle

SpecPoints == InitPoints /\ [][PointsNext]_vars

HistNext ==
  HistCall /\ UNCHANGED <<zoomVars, valVars, lttbVars, ptVars, calcVars, files, syncStoreVars, importVars, visVars>>

InitHist ==
  HistInit /\ ZoomIdle /\ ValIdle /\ LttbIdle /\ PtIdle /\ CalcIdle /\ FilesIdle /\ SyncStoreInit /\ ImportIdle /\ VisIdle

SpecHist == InitHist /\ [][HistNext]_vars

ResolveNext ==
  \/ AutoSelectXAxis /\ UNCHANGED <<zoomVars, valVars, lttbVars, ptVars, histVars, calcVars, syncStoreVars, importVars>>
  \/ (\E fileId \in {1, 2} : removeFile(fileId))
        /\ UNCHANGED <<zoomVars, valVars, lttbVars, ptVars, histVars, calcVars, syncStoreVars, importVars>>
  \/ (\E g \in {"g1", "g2"} : toggleGroupActive(g))
        /\ UNCHANGED <<zoomVars, valVars, lttbVars, ptVars, histVars, calcVars, syncStoreVars, importVars>>
  \/ (\E sel \in ResolveSelections : setTreeSelection(sel))
        /\ UNCHANGED <<zoomVars, valVars, lttbVars, ptVars, histVars, calcVars, syncStoreVars, importVars>>

InitResolve == VisInit /\ ZoomIdle /\ ValIdle /\ LttbIdle /\ PtIdle /\ HistIdle /\ CalcIdle /\ SyncStoreInit /\ ImportIdle

SpecResolve == InitResolve /\ [][ResolveNext]_vars


ValuesNext ==
  \/ ParseValueFiles /\ UNCHANGED <<zoomVars, lttbVars, ptVars, histVars, calcVars, files, syncStoreVars, importVars, visVars>>
  \/ RenderValueTables /\ UNCHANGED <<zoomVars, lttbVars, ptVars, histVars, calcVars, files, syncStoreVars, importVars, visVars>>
  \/ (\E type \in {"set", "actual"} : \E rowNumber \in {1, 2} : OpenValueDetail(type, rowNumber))
        /\ UNCHANGED <<zoomVars, lttbVars, ptVars, histVars, calcVars, files, syncStoreVars, importVars, visVars>>

InitValues ==
  ValInit /\ ZoomIdle /\ LttbIdle /\ PtIdle /\ HistIdle /\ CalcIdle /\ FilesIdle /\ SyncStoreInit /\ ImportIdle /\ VisIdle

SpecValues == InitValues /\ [][ValuesNext]_vars


\* ---------------------------------------------------------------------------
\* C1: for 2 < threshold < N, lttbDownsample returns a list that starts with
\* 0, ends with N-1 and has exactly `threshold` elements.
\* ---------------------------------------------------------------------------
LttbValidThreshold == 2 < lttbThreshold /\ lttbThreshold < Len(lttbX)

C1_LttbEndsAndLength ==
  (lttbPc = "done" /\ LttbValidThreshold) =>
     /\ Len(lttbOut) = lttbThreshold
     /\ lttbOut[1] = 0
     /\ lttbOut[Len(lttbOut)] = Len(lttbX) - 1

C1_Witness ==
  /\ lttbPc = "done"
  /\ Len(lttbX) = 6
  /\ lttbThreshold = 4
  /\ Len(lttbOut) = 4

\* ---------------------------------------------------------------------------
\* C2: for 2 < threshold < N, the returned indices are strictly increasing
\* (no index, 0 and N-1 included, appears twice).
\* ---------------------------------------------------------------------------
C2_LttbStrictlyIncreasing ==
  (lttbPc = "done" /\ LttbValidThreshold) =>
     \A k \in 1..(Len(lttbOut) - 1) : lttbOut[k] < lttbOut[k + 1]

\* ---------------------------------------------------------------------------
\* C3: in calculateSyncOffsets a file for which no offset can be determined
\* (no channel on the active X-axis with the master Y-axis; in ythreshold
\* mode a master series that never equals or straddles the threshold) gets
\* offset 0 and one error string naming it, and every other file of the batch
\* gets the offset it gets when it is the only file of the batch.
\* The expected values are stated from the definition of the offsets, not by
\* the loops of the code.
\* ---------------------------------------------------------------------------
IsMaster(ch) ==
  ch.xName = calcActiveX /\ (ch.yName = calcMaster \/ ch.description = calcMaster)

HasMaster(file) == \E k \in 1..Len(file.curves) : IsMaster(file.curves[k])

MasterOf(file) ==
  file.curves[CHOOSE k \in 1..Len(file.curves) :
                /\ IsMaster(file.curves[k])
                /\ \A m \in 1..(k - 1) : ~IsMaster(file.curves[m])]

\* positions (1-based) at which the series reaches or passes the threshold
CrossingsOf(ch) ==
  { i \in 1..Len(ch.pointsY) :
      \/ ch.pointsY[i] = calcThreshold
      \/ /\ i > 1
         /\ \/ ch.pointsY[i - 1] < calcThreshold /\ ch.pointsY[i] > calcThreshold
            \/ ch.pointsY[i - 1] > calcThreshold /\ ch.pointsY[i] < calcThreshold }

NoOffsetFor(file) ==
  \/ ~HasMaster(file)
  \/ Len(MasterOf(file).pointsX) = 0
  \/ calcMode = "ythreshold" /\ CrossingsOf(MasterOf(file)) = {}

\* r is the X position at which the segment (x0,y0)-(x1,y1) has Y = threshold
OnSegment(r, x0, y0, x1, y1) ==
  (r.n - x0 * r.d) * (y1 - y0) = (calcThreshold - y0) * (x1 - x0) * r.d

ExpectedOffset(file, off) ==
  IF NoOffsetFor(file) THEN off = RatInt(0)
  ELSE LET ch == MasterOf(file)
           xs == {ch.pointsX[j] : j \in 1..Len(ch.pointsX)}
       IN  CASE calcMode = "xmin" ->
                  /\ off.d = 1
                  /\ -off.n \in xs
                  /\ \A v \in xs : -off.n <= v
             [] calcMode = "xmax" ->
                  /\ off.d = 1
                  /\ -off.n \in xs
                  /\ \A v \in xs : -off.n >= v
             [] calcMode = "ythreshold" ->
                  LET i == CHOOSE c \in CrossingsOf(ch) : \A o \in CrossingsOf(ch) : c <= o
                  IN  IF ch.pointsY[i] = calcThreshold
                        THEN off = RatInt(-ch.pointsX[i])
                        ELSE OnSegment(RatNeg(off), ch.pointsX[i - 1], ch.pointsY[i - 1],
                                       ch.pointsX[i], ch.pointsY[i])

FailedFiles == SelectSeq(calcFiles, NoOffsetFor)

C3_SyncErrorsPerFile ==
  calcPc = "returned" =>
    /\ DOMAIN calcOffsets = {calcFiles[k].id : k \in 1..Len(calcFiles)}
    /\ \A k \in 1..Len(calcFiles) :
         ExpectedOffset(calcFiles[k], calcOffsets[calcFiles[k].id])
    /\ Len(calcErrors) = Len(FailedFiles)
    /\ \A e \in 1..Len(calcErrors) : calcErrors[e].file = FailedFiles[e].name

\* a batch whose first file has no master channel and whose second file has
\* a threshold crossing between two samples
C3_Witness ==
  /\ calcPc = "returned"
  /\ calcMode = "ythreshold"
  /\ Len(calcFiles) = 2
  /\ ~HasMaster(calcFiles[1])
  /\ ~NoOffsetFor(calcFiles[2])
  /\ calcOffsets[calcFiles[1].id] = RatInt(0)
  /\ calcOffsets[calcFiles[2].id] = RatInt(-4)
  /\ Len(calcErrors) = 1

\* ---------------------------------------------------------------------------
\* C4: a running sync calculation can be cancelled: once it has been
\* cancelled (the only controls that end a calculation are Reset and the
\* mode Off, both resetSync, after which the store no longer reports a
\* calculation), no further file is processed.
\* ---------------------------------------------------------------------------
SyncCancelled == calcPc = "loop" /\ ~syncIsCalculating

C4_NoFileAfterCancel == [][SyncCancelled => calcI' = calcI]_vars

\* ---------------------------------------------------------------------------
\* C5: once an import has been cancelled, no further sub-batch of its files
\* is handed to parsing, whichever path runs it (processFiles, the Electron
\* fallback loop, the worker pool).
\* ---------------------------------------------------------------------------
C5_NoDispatchAfterCancel ==
  [][\A s \in ImportIds : imp[s].aborted => dispatched'[s] = dispatched[s]]_vars

\* ---------------------------------------------------------------------------
\* C6: cancelling keeps what was imported: from the cancellation on, every
\* step leaves the files already in the store in place and unchanged (the
\* store only grows at its end).
\* ---------------------------------------------------------------------------
Cancelled == \E s \in ImportIds : imp[s].aborted

IsPrefix(a, b) == Len(a) <= Len(b) /\ SubSeq(b, 1, Len(a)) = a

C6_CancelKeepsStore ==
  [][(Cancelled \/ Cancelled') => IsPrefix(files, files')]_vars

\* an import cancelled after its first batch had been added to the store,
\* with the batch still in the store when the import has ended
C6_Witness ==
  \E s \in ImportIds :
    /\ imp[s].aborted
    /\ imp[s].pc = "done"
    /\ imp[s].n > BATCH_SIZE
    /\ Len(imp[s].results) > 0
    /\ Len(imp[s].results) < imp[s].n - 2
    /\ \A k \in 1..Len(imp[s].results) :
         \E j \in 1..Len(files) : files[j] = ImportedFile(imp[s].results[k])

\* ---------------------------------------------------------------------------
\* C7: a file that cannot be read, decompressed or parsed, or that holds no
\* XML, never aborts its batch: an import that is not cancelled ends with
\* exactly its good files parsed, returned and in the store, and no import
\* ever delivers anything for a broken file.
\* ---------------------------------------------------------------------------
GoodIds(s) == {FileId(s, k) : k \in {j \in 1..imp[s].n : KindOf(imp[s].fail, j) = "ok"}}

ResultIds(s) == {imp[s].results[k] : k \in 1..Len(imp[s].results)}

StoreIds == {files[k].id : k \in 1..Len(files)}

C7_FailuresSkipped ==
  \A s \in ImportIds :
    /\ ResultIds(s) \subseteq GoodIds(s)
    /\ ResultIds(s) \subseteq StoreIds
    /\ (imp[s].pc = "done" /\ ~imp[s].aborted) =>
         /\ ResultIds(s) = GoodIds(s)
         /\ Len(imp[s].results) = Cardinality(GoodIds(s))

\* a pool import of 101 files that ended with 99 files delivered: the first
\* file was unreadable and the last one malformed
C7_Witness ==
  \E s \in ImportIds :
    /\ imp[s].pc = "done"
    /\ ~imp[s].aborted
    /\ imp[s].path = "pool"
    /\ imp[s].n = 2 * BATCH_SIZE + 1
    /\ imp[s].fail = {<<1, "unreadable">>, <<imp[s].n, "malformed">>}
    /\ Len(imp[s].results) = imp[s].n - 2
    /\ Cardinality(StoreIds \cap GoodIds(s)) = imp[s].n - 2
\* ---------------------------------------------------------------------------
\* C8: every toggle of a group's visibility leaves exactly one entry with the
\* new state for every member channel of the group, and leaves the entries
\* of every other groupId as they were.
\* ---------------------------------------------------------------------------
Members(groupId) ==
  IF groupId = UNGROUPED THEN treeSelection
  ELSE groups[CHOOSE k \in 1..Len(groups) : groups[k].id = groupId].channels

\* cv holds exactly one entry for the instance, and it carries `visible`
OneEntry(cv, g, f, c, visible) ==
  /\ Cardinality({k \in 1..Len(cv) : Matches(cv[k], g, f, c)}) = 1
  /\ \A k \in 1..Len(cv) : Matches(cv[k], g, f, c) => cv[k].visible = visible

OtherGroupsUntouched(groupId) ==
  LET other(e) == e.groupId /= groupId
  IN  SelectSeq(channelVisibility', other) = SelectSeq(channelVisibility, other)

C9_HiddenInstanceNotRendered ==
  \A t \in hiddenInstances : \A k \in 1..Len(filteredChannels) : filteredChannels[k] /= t

\* channel a is hidden in active group g1 and still rendered through group
\* g2 and through the tree selection, and g1 renders its other channel
C9_Witness ==
  /\ Instance("g1", 1, "a") \in hiddenInstances
  /\ \E k \in 1..Len(visibleChannels) : visibleChannels[k] = Instance("g1", 1, "a")
  /\ \E k \in 1..Len(filteredChannels) : filteredChannels[k] = Instance("g2", 1, "a")
  /\ \E k \in 1..Len(filteredChannels) : filteredChannels[k] = Instance(UNGROUPED, 1, "a")
  /\ \E k \in 1..Len(filteredChannels) : filteredChannels[k] = Instance("g1", 2, "c")
  /\ Len(channelVisibility) >= 3

\* ---------------------------------------------------------------------------
\* C10: allChannels holds an 'ungrouped' tuple for a (file, channel) pair
\* only if it holds no tuple of an active group for the same pair.
\* ---------------------------------------------------------------------------
C10_UngroupedOnlyIfUncovered ==
  \A k \in 1..Len(allChannels) :
    allChannels[k].groupId = UNGROUPED =>
      ~\E j \in 1..Len(allChannels) :
          /\ allChannels[j].groupId /= UNGROUPED
          /\ allChannels[j].fileId = allChannels[k].fileId
          /\ allChannels[j].channelId = allChannels[k].channelId
\* ---------------------------------------------------------------------------
\* C11: a ChannelRef whose fileId or channelId matches no loaded file or
\* channel is skipped when the renderable channels and the legend are
\* resolved: no tuple refers to a missing file or channel, and every ref of an
\* active group (and every tree-selected ref) that does resolve still has its
\* tuple, whatever dangling refs stand before it.
\* ---------------------------------------------------------------------------
Dangling(r) == ~HasChannel(r.fileId, r.channelId)

InSeq(seq, t) == \E k \in 1..Len(seq) : seq[k] = t

C11_DanglingRefsSkipped ==
  /\ \A k \in 1..Len(allChannels) : ~Dangling(allChannels[k])
  /\ \A t \in LegendRows : ~Dangling(t)
  /\ \A g \in 1..Len(groups) : \A k \in 1..Len(groups[g].channels) :
       LET r == groups[g].channels[k]
           t == Instance(groups[g].id, r.fileId, r.channelId)
       IN  groups[g].isActive =>
             /\ InSeq(allChannels, t) <=> ~Dangling(r)
             /\ t \in LegendRows <=> Listed(r)
  /\ \A k \in 1..Len(treeSelection) :
       LET r == treeSelection[k]
           t == Instance(UNGROUPED, r.fileId, r.channelId)
       IN  /\ InSeq(allChannels, t) <=> ~Dangling(r)
           /\ t \in LegendRows <=> Listed(r)

\* run-A has been removed: the first two refs of the active group g1 dangle
\* and its third ref is the group's only tuple; the tree selection's ref to
\* run-B resolves and its ref to run-A does not
C11_Witness ==
  /\ files = <<VisFileB>>
  /\ groups[1].isActive /\ ~groups[2].isActive
  /\ Dangling(groups[1].channels[1]) /\ Dangling(groups[1].channels[2])
  /\ treeSelection = <<Ref(2, "c"), Ref(1, "a")>>
  /\ allChannels = <<Instance("g1", 2, "c"), Instance(UNGROUPED, 2, "c")>>


\* ---------------------------------------------------------------------------
\* C12: an instance (groupId, fileId, channelId) that has no ChannelVisibility
\* entry is visible: isChannelVisible and the legend's getVisibility say
\* visible, and if the instance is among the channels on the active X axis the
\* visibility filter keeps its tuple.
\* ---------------------------------------------------------------------------
NoEntry(t) == FindIndex(channelVisibility, t.groupId, t.fileId, t.channelId) = 0

AllInstances ==
  { Instance(g, r.fileId, r.channelId) :
      g \in {"g1", "g2", UNGROUPED}, r \in {Ref(1, "a"), Ref(1, "b"), Ref(2, "c")} }

C12_NoEntryMeansVisible ==
  \A t \in AllInstances :
    NoEntry(t) =>
      /\ isChannelVisible(t.groupId, t.fileId, t.channelId)
      /\ getVisibility(t.groupId, t.fileId, t.channelId).visible
      /\ InSeq(visibleChannels, t) => InSeq(filteredChannels, t)

\* channel a is hidden in group g2 and channel c in group g1 while channel a
\* in group g1 has no entry and is rendered
C12_Witness ==
  /\ Len(channelVisibility) = 2
  /\ ~isChannelVisible("g2", 1, "a")
  /\ ~isChannelVisible("g1", 2, "c")
  /\ NoEntry(Instance("g1", 1, "a"))
  /\ InSeq(filteredChannels, Instance("g1", 1, "a"))
  /\ ~InSeq(filteredChannels, Instance("g2", 1, "a"))


\* ---------------------------------------------------------------------------
\* C13: the worker pool is bounded: each worker has at most one parse request
\* in flight (posted to it and not yet answered to the main process), exactly
\* when it is marked busy; so at most POOL_SIZE requests are in flight, each
\* with its resolver, and every other outstanding request waits in
\* pendingRequests, which is non-empty only while all workers are busy.
\* ---------------------------------------------------------------------------
InFlight(w) == Len(workerInbox[w]) + Len(workerOutbox[w])

RECURSIVE SumOver(_, _)
SumOver(f, S) ==
  IF S = {} THEN 0 ELSE LET x == CHOOSE x \in S : TRUE IN f[x] + SumOver(f, S \ {x})

\* the chunks of running calls that await a parseFilesInWorker promise
AwaitingChunks ==
  SumOver([s \in DOMAIN calls |->
             Cardinality({c \in 1..Len(calls[s].chunkJ) : calls[s].chunkJ[c] /= -1})],
          DOMAIN calls)

C14_ServedInArrivalOrder ==
  /\ \A r \in activeResolvers : r.rid = r.seq
  /\ \A i \in 1..Len(pendingRequests) : pendingRequests[i].seq = requestIdCounter + i - 1
  /\ submitCounter = requestIdCounter + Len(pendingRequests)

\* the requests of the second drop were queued behind the first drop's and
\* are now with the workers, while the next sub-batch of the first drop,
\* which arrived after them, waits in the queue
C14_Witness ==
  /\ Len(pendingRequests) = 1
  /\ Cardinality(activeResolvers) = PoolSize
  /\ \A r \in activeResolvers :
       /\ r.call /= pendingRequests[1].call
       /\ r.rid >= PoolSize
       /\ r.rid < pendingRequests[1].seq

\* ---------------------------------------------------------------------------
\* C15: a worker answers every 'parse-files' message with exactly one
\* 'parse-result' message that carries the same requestId and one result per
\* submitted path, in submission order: the parsed file of path i, or null if
\* that file failed; and a worker posts nothing else.
\* ---------------------------------------------------------------------------
ExpectedResults(msg) ==
  [k \in 1..msg.len |->
     IF \E a \in imp[msg.call].fail : a[1] = msg.from + k - 1
       THEN NoFile ELSE FileId(msg.call, msg.from + k - 1)]

C15_OneResultPerPath ==
  [][\A w \in 1..PoolSize :
       /\ Len(workerInbox'[w]) < Len(workerInbox[w]) =>
            workerOutbox'[w] =
              Append(workerOutbox[w],
                     [requestId |-> Head(workerInbox[w]).requestId,
                      results |-> ExpectedResults(Head(workerInbox[w]))])
       /\ Len(workerOutbox'[w]) > Len(workerOutbox[w]) =>
            Len(workerInbox'[w]) < Len(workerInbox[w])]_vars

\* a worker has answered the first sub-batch of a drop whose first file is
\* malformed: null, then the parsed files of the other paths
C15_Witness ==
  \E w \in 1..PoolSize :
    /\ Len(workerOutbox[w]) = 1
    /\ workerInbox[w] = <<>>
    /\ LET results == workerOutbox[w][1].results
       IN  /\ Len(results) = SUB_BATCH
           /\ results[1] = NoFile
           /\ \A k \in 2..SUB_BATCH : IsFile(results[k]) /\ results[k] % IdStride = k


\* ---------------------------------------------------------------------------
\* C19: calculateSyncOffsets reports progress incrementally: one onProgress
\* call before each file, with current = the file's 0-based index and total =
\* the batch size, in increasing order, and one last call with current =
\* total when the function returns; current never decreases and never
\* exceeds total.
\* ---------------------------------------------------------------------------
ProgressBefore(k) == [j \in 1..k |-> [current |-> j - 1, total |-> Len(calcFiles)]]

ResetStep == handleReset \/ handleModeChange("off")

Unshifted(offsets, fs) ==
  \A k \in 1..Len(fs) : \A c \in 1..Len(fs[k].curves) :
    seriesX(offsets, fs[k], fs[k].curves[c])
      = [i \in 1..Len(fs[k].curves[c].pointsX) |-> RatInt(fs[k].curves[c].pointsX[i])]

C18_ResetClearsOffsets ==
  [][ResetStep => syncOffsets' = EmptyRecord /\ Unshifted(syncOffsets', files')]_vars

\* offsets that shifted every file have been applied and then reset
C18_Witness ==
  /\ calcPc = "idle"
  /\ Len(files) = MaxSyncFiles
  /\ DOMAIN calcOffsets = {files[k].id : k \in 1..Len(files)}
  /\ \A id \in DOMAIN calcOffsets : calcOffsets[id].n /= 0
  /\ ~Unshifted(calcOffsets, files)
  /\ syncMode = "off"
  /\ syncOffsets = EmptyRecord
  /\ Unshifted(syncOffsets, files)


\* ---------------------------------------------------------------------------
\* C16: the point-string decoder never throws: whatever the points field
\* (a string, absent, not a string) and whatever the declared noOfPoints, it
\* returns a pair of coordinate arrays, possibly empty.
\* ---------------------------------------------------------------------------
C16_DecoderNeverThrows == ptPc /= "threw"

\* ---------------------------------------------------------------------------
\* C17: every CurveChannel the application holds has pointsX.length =
\* pointsY.length = noOfPoints, whether it was parsed in the renderer or in a
\* worker and converted on arrival, also when the declared count differs from
\* the number of pairs present.
\* ---------------------------------------------------------------------------
C17_LengthsEqualCount ==
  ptPc = "held" =>
    /\ ptChannel.typed
    /\ Len(ptChannel.pointsX) = ptChannel.noOfPoints
    /\ Len(ptChannel.pointsY) = ptChannel.noOfPoints

\* ---------------------------------------------------------------------------
\* C20: computeHistogramBins with bin count B puts every input value into
\* exactly one bin with index in 0..B-1: the bins' index lists partition the
\* input positions and the counts sum to the number of values; if all values
\* are identical a single bin holds all of them.
\* ---------------------------------------------------------------------------
BinOf(vi) == { b \in 1..Len(histOut.bins) :
                 \E k \in 1..Len(histOut.bins[b].indices) : histOut.bins[b].indices[k] = vi }

C20_BinsPartitionValues ==
  histPc = "done" =>
    /\ ~histOut.threw
    /\ Len(histOut.bins) <= histBinCount
    /\ \A vi \in 0..(Len(histValues) - 1) : Cardinality(BinOf(vi)) = 1
    /\ \A b \in 1..Len(histOut.bins) :
         /\ histOut.bins[b].count = Len(histOut.bins[b].indices)
         /\ \A k \in 1..Len(histOut.bins[b].indices) :
              /\ histOut.bins[b].indices[k] \in 0..(Len(histValues) - 1)
              /\ \A j \in 1..(k - 1) : histOut.bins[b].indices[j] /= histOut.bins[b].indices[k]
    /\ SumOver([b \in 1..Len(histOut.bins) |-> histOut.bins[b].count], 1..Len(histOut.bins))
         = Len(histValues)
    /\ (Len(histValues) > 0 /\ \A k \in 1..Len(histValues) : histValues[k] = histValues[1])
         => Len(histOut.bins) = 1


\* ---------------------------------------------------------------------------
\* C21: a set/actual value row whose normalized status is 256 never
\* contributes to the cross-file union of rows (collectDescriptions,
\* collectAllValueDescriptions) nor to the data points of a row (dataPoints,
\* numericValues): every entry of the union and every data point comes from
\* a row whose status is not 256, and both are what they would be if the
\* deactivated rows were not in the files at all.
\* ---------------------------------------------------------------------------
RECURSIVE ActiveRows(_)
ActiveRows(values) ==
  IF values = <<>> THEN <<>>
  ELSE (IF Head(values).status = DEACTIVATED THEN <<>> ELSE <<Head(values)>>)
         \o ActiveRows(Tail(values))

WithoutDeactivated(fs) ==
  [f \in 1..Len(fs) |-> [id |-> fs[f].id, setValues |-> ActiveRows(fs[f].setValues),
                         actualValues |-> ActiveRows(fs[f].actualValues)]]

FromActiveRow(type, rowNumber, description) ==
  \E f \in 1..Len(valFiles) : \E j \in 1..Len(ValuesOf(valFiles[f], type)) :
    LET v == ValuesOf(valFiles[f], type)[j]
    IN  v.rowNumber = rowNumber /\ v.description = description /\ v.status /= DEACTIVATED

C22_EveryCallReturns ==
  \A s \in PoolCallIds : (calls[s].pc = "running") ~> (calls[s].pc = "returned")


\* ---------------------------------------------------------------------------
\* C23: whenever syncMode is 'off' (after Reset or after the mode is switched
\* to off), syncOffsets is empty, also when a sync calculation that was
\* started earlier finishes afterwards.
\* ---------------------------------------------------------------------------
C23_OffMeansNoOffsets == syncMode = "off" => DOMAIN syncOffsets = {}


\* ---------------------------------------------------------------------------
\* C24: when two worker-pool imports overlap, each import collects only the
\* files of its own request: a 'parse-batch' event produced for one
\* 'parse-files-parallel' request is never added to the results of another
\* import.
\* ---------------------------------------------------------------------------
OwnerOf(id) == id \div IdStride

C24_OwnBatchesOnly ==
  \A s \in DOMAIN imp : \A k \in 1..Len(imp[s].results) : OwnerOf(imp[s].results[k]) = s


\* ---------------------------------------------------------------------------
\* C25: activating Cancel aborts every import that is running at that moment,
\* whichever entry point started it (file picker, drop zone, window-level
\* drop) and even if another import was started or finished in the meantime.
\* ---------------------------------------------------------------------------
Running(s) == imp[s].pc \notin {"ready", "done", "unused"}

\* the steps of handleCancelImport: the one handler that clears a set
\* isLoading and adds a status timer without ending an import
CancelStep ==
  /\ isLoading /\ ~isLoading'
  /\ loadingTimers'.clear = loadingTimers.clear + 1
  /\ \A s \in DOMAIN imp : imp'[s].pc = imp[s].pc

C25_CancelAbortsAllRunning ==
  [][CancelStep => \A s \in DOMAIN imp : Running(s) => imp'[s].aborted]_vars


\* ---------------------------------------------------------------------------
\* C26: while an import is in progress (started, not cancelled and not yet
\* returned) the file store's isLoading flag is true: no status-clearing
\* timer, cancellation or completion handler of another import sets it to
\* false.
\* ---------------------------------------------------------------------------
InProgress(s) == Running(s) /\ ~imp[s].aborted

C26_LoadingWhileImporting == (\E s \in DOMAIN imp : InProgress(s)) => isLoading


\* ---------------------------------------------------------------------------
\* C27: successive zoom undos step back through the recorded zoom history one
\* level at a time: starting from n recorded levels, after k undos (k < n)
\* the chart shows the (n-k)-th recorded level, although each undo re-applies
\* its level through the dataZoom action whose event handler records zoom
\* history.
\* ---------------------------------------------------------------------------
C27_UndoStepsBack ==
  (undoCount > 0 /\ undoCount < Len(undoBase)) =>
     chartZoom = undoBase[Len(undoBase) - undoCount]



\* C28: channelVisibility holds at most one entry per (groupId, fileId,
\* channelId) triple after any sequence of setChannelVisible,
\* setMultipleChannelsVisible, setChannelElementVisible,
\* setElementGroupVisible and initChannelVisibility calls.
C28_OneEntryPerTriple ==
  \A j, k \in 1..Len(channelVisibility) :
    Matches(channelVisibility[j], channelVisibility[k].groupId,
            channelVisibility[k].fileId, channelVisibility[k].channelId) => j = k


\* C29: the file store never contains two files with the same id, after any
\* sequence of addFiles, removeFile and clearFiles calls with arbitrary
\* arguments.
C29_FileIdsUnique ==
  \A j, k \in 1..Len(files) : files[j].id = files[k].id => j = k

\* ---------------------------------------------------------------------------
\* C30: during one 'parse-files-parallel' call every submitted path is
\* counted exactly once: the completed value in successive 'parse-batch'
\* events is strictly increasing, never exceeds total, and equals total in
\* the last event sent before the call returns.
\* ---------------------------------------------------------------------------
\* the messages a step of the main process sends to the renderer
SentNow == SubSeq(ipcToRenderer', Len(ipcToRenderer) + 1, Len(ipcToRenderer'))

C30_CompletedCountsEveryPath ==
  [][\A s \in PoolCallIds :
       (calls[s].pc = "running" /\ calls'[s] /= calls[s]) =>
         /\ Len(SentNow) >= 1
         /\ SentNow[1].type = "parse-batch"
         /\ SentNow[1].total = calls[s].total
         /\ SentNow[1].completed > calls[s].completed
         /\ SentNow[1].completed <= SentNow[1].total
         /\ calls'[s].completed = SentNow[1].completed
         /\ calls'[s].pc = "returned" <=>
              (/\ Len(SentNow) = 2
               /\ SentNow[2] = [type |-> "reply", call |-> s]
               /\ SentNow[1].completed = SentNow[1].total)]_vars

\* a call for a folder with a second sub-batch and a malformed first file has
\* returned: its last 'parse-batch' event, with completed = total, is followed
\* by the reply
C30_Witness ==
  \E s \in PoolCallIds : \E k \in 1..(Len(ipcToRenderer) - 1) :
    /\ calls[s].pc = "returned"
    /\ calls[s].total = 2 * SUB_BATCH + 1
    /\ calls[s].allResults < calls[s].total
    /\ ipcToRenderer[k].type = "parse-batch"
    /\ ipcToRenderer[k].completed = calls[s].total
    /\ ipcToRenderer[k].total = calls[s].total
    /\ ipcToRenderer[k + 1] = [type |-> "reply", call |-> s]

====
